---- MODULE Spec2Model ----
(***************************************************************************)
(* Model of the Shiori travel planner.                                     *)
(*                                                                         *)
(* Backend AI service (backend/src/services/aiService.ts): the lazily      *)
(* built Gemini client, the plan pipeline generateTravelPlan (prompt,      *)
(* model call, JSON extraction, JSON.parse, mock fallback), the            *)
(* recommendation pipeline generateRecommendations (extraction, parse,     *)
(* destination filter, image validation) and the pure helpers they use.    *)
(*                                                                         *)
(* Text is modelled as a sequence of one-character strings, so that the    *)
(* regular expressions, String.replace, String.includes and String.length  *)
(* of the source are computed on characters.                               *)
(***************************************************************************)
EXTENDS Integers, Sequences, FiniteSets, TLC

VARIABLES
    apiKey,     \* process.env.GEMINI_API_KEY ("" when it is not defined)
    genAI,      \* the module-level client slot of aiService.ts
    plan,       \* the running generateTravelPlan invocation
    rec,        \* the running generateRecommendations invocation
    ext,        \* the response extractor applied to one model text
    mock,       \* generateMockPlan applied to one travelData
    dur,        \* the trip-length computation applied to one date range
    constructed, \* how many times new GoogleGenerativeAI(apiKey) has run
    names,      \* the running extractNamesFromImage invocations
    wiz,        \* the travel-creation wizard (TravelCreator and its steps)
    tab,        \* the AI recommendations tab
    rat,        \* the room-assignment tab
    tg,         \* the tags of the members
    sch,        \* the schedule tab
    cat         \* the budget tab or the packing tab

vars == <<apiKey, genAI, plan, rec, ext, mock, dur, constructed, names, wiz,
         tab,
         rat,
         tg,
         sch,
         cat>>

-----------------------------------------------------------------------------
(* Bounds of the model.                                                    *)

\* model texts are built from at most this many segments
MaxSegs == 4

\* the texts a plan-generation call can receive have at most this many segments
MaxPlanSegs == 3

\* the dates of the model are FirstDate and the DateSpan days after it
DateSpan == 85

\* generateMockPlan is applied to every budget from 0 to MaxBudget
MaxBudget == 40

\* a recommendation list of the model has at most this many elements
MaxRecs == 2

\* at most this many extractNamesFromImage invocations run at the same time
MaxNames == 2

\* the wizard starts at most this many plan-generation attempts
MaxAttempts == 2

\* the wizard calls travelApi.create at most this many times
MaxCreates == 2

\* the recommendations tab sends at most this many requests
MaxRequests == 3

\* at most this many recommendations are added to the places
MaxPlaces == 2

\* the stay of the room-assignment tab has at most this many nights
MaxNights == 2

\* the user edits the room assignment by hand at most this many times
MaxEdits == 1

\* the user clicks the automatic assignment at most this many times
MaxAutos == 1

\* the user opens the edit mode of the members at most this many times
MaxSessions == 1

\* the user ticks or unticks a tag of a member at most this many times
MaxTagUpdates == 2

\* the user adds at most this many tags
MaxTagAdds == 1

\* the user saves at most this many items of the schedule
MaxSaves == 2

\* the user reorders the items of a day at most this many times
MaxReorders == 1

\* the user adds at most this many categories
MaxCategoryAdds == 1

\* the user saves at most this many expenses or packing items
MaxEntrySaves == 2

-----------------------------------------------------------------------------
(* Characters and strings.                                                 *)

Min(S) == CHOOSE x \in S : \A y \in S : x <= y
Max(S) == CHOOSE x \in S : \A y \in S : x >= y

\* the characters the regex class \s matches, among those of the model
IsSpace(c) == c \in {" ", "\n"}

\* t has the characters of p at position i
StartsAt(t, i, p) ==
    /\ i >= 1
    /\ i + Len(p) - 1 <= Len(t)
    /\ \A k \in 1..Len(p) : t[i + k - 1] = p[k]

\* String.prototype.includes
Includes(t, p) == \E i \in 1..(Len(t) + 1) : StartsAt(t, i, p)

RECURSIVE Flatten(_)
Flatten(ss) == IF ss = <<>> THEN <<>> ELSE Head(ss) \o Flatten(Tail(ss))

RECURSIVE TrimLeft(_), TrimRight(_)
TrimLeft(s) == IF s # <<>> /\ IsSpace(Head(s)) THEN TrimLeft(Tail(s)) ELSE s
TrimRight(s) ==
    IF s # <<>> /\ IsSpace(s[Len(s)])
    THEN TrimRight(SubSeq(s, 1, Len(s) - 1)) ELSE s

\* String.prototype.trim
Trim(s) == TrimRight(TrimLeft(s))

\* the backtick character (a TLA+ string cannot hold it)
Backtick == "BACKTICK"

FenceJson == <<Backtick, Backtick, Backtick, "j", "s", "o", "n">>
Fence == <<Backtick, Backtick, Backtick>>

\* what a model text is made of: fences, white space, JSON punctuation,
\* a digit and a letter of prose
Segments ==
    { FenceJson, Fence, <<" ">>, <<"{">>, <<"}">>, <<"[">>, <<"]">>,
      <<"1">>, <<"x">> }

Texts == UNION { { Flatten(s) : s \in [1..n -> Segments] } : n \in 0..MaxSegs }

-----------------------------------------------------------------------------
(* The response extractor (aiService.ts lines 123-124 and 286-287).        *)

NoMatch == [found |-> FALSE, whole |-> <<>>, group |-> <<>>]

\* text.match(/```json\s*([\s\S]*?)\s*```/): the leftmost "```json" that a
\* later "```" closes; \s* takes all the white space after the label, the lazy
\* group stops before the white space that precedes the first closing fence.
MatchFencedJson(t) ==
    LET opens == { i \in 1..Len(t) :
                     /\ StartsAt(t, i, FenceJson)
                     /\ \E k \in (i + Len(FenceJson))..Len(t) :
                            StartsAt(t, k, Fence) }
    IN  IF opens = {} THEN NoMatch
        ELSE
          LET i  == Min(opens)
              a  == Min({ j \in (i + Len(FenceJson))..Len(t) : ~IsSpace(t[j]) })
              k  == Min({ j \in a..Len(t) : StartsAt(t, j, Fence) })
              p  == Min({ j \in a..k : \A q \in j..(k - 1) : IsSpace(t[q]) })
          IN  [found |-> TRUE,
               whole |-> SubSeq(t, i, k + Len(Fence) - 1),
               group |-> SubSeq(t, a, p - 1)]

\* the greedy match from the first open character to the last close character
MatchGreedy(t, open, close) ==
    LET os == { i \in 1..Len(t) : t[i] = open }
    IN  IF os = {} THEN NoMatch
        ELSE
          LET i  == Min(os)
              cs == { j \in (i + 1)..Len(t) : t[j] = close }
          IN  IF cs = {} THEN NoMatch
              ELSE [found |-> TRUE, whole |-> SubSeq(t, i, Max(cs)),
                    group |-> <<>>]

\* text.match(/\{[\s\S]*\}/)
MatchObject(t) == MatchGreedy(t, "{", "}")

\* text.match(/\[.*\]/s)
MatchArray(t) == MatchGreedy(t, "[", "]")

\* JsonString with the empty string where nothing matched
JsonStringOrEmpty(m, t) ==
    IF m.found THEN (IF m.group # <<>> THEN m.group ELSE m.whole) ELSE <<>>

\* jsonMatch ? jsonMatch[1] || jsonMatch[0] : text
\* (an empty or missing group 1 is falsy, so the whole match is taken)
JsonString(m, t) ==
    IF m.found THEN (IF m.group # <<>> THEN m.group ELSE m.whole) ELSE t

\* ExtractPlanJson with the two patterns tried in the other order
ExtractPlanJsonObjectFirst(t) ==
    LET object == MatchObject(t)
    IN  JsonString(IF object.found THEN object ELSE MatchFencedJson(t), t)

\* lines 123-124 of generateTravelPlan
ExtractPlanJson(t) ==
    LET fenced == MatchFencedJson(t)
    IN  JsonString(IF fenced.found THEN fenced ELSE MatchObject(t), t)

\* lines 286-287 of generateRecommendations
ExtractRecommendationsJson(t) ==
    LET fenced == MatchFencedJson(t)
    IN  JsonString(IF fenced.found THEN fenced ELSE MatchArray(t), t)

-----------------------------------------------------------------------------
(* JavaScript values and the object literals of the model texts.           *)

\* a JavaScript value of a field: a string (its characters), a number, or
\* undefined for a key that is absent
Str(chars) == [type |-> "string", chars |-> chars]
Absent == [type |-> "undefined", chars |-> <<>>]
Number == [type |-> "number", chars |-> <<>>]

HttpsPrefix == <<"h", "t", "t", "p", "s", ":", "/", "/">>
DotJpg == <<".", "j", "p", "g">>

\* n characters of a host name
Pad(n) == [i \in 1..n |-> "a"]

\* a URL, written as its scheme, the text after it and its ending
Url(scheme, host, ending) == scheme \o host \o ending

Kyoto == Str(<<"K", "y", "o", "t", "o">>)

\* The object literals a model text can hold, one token each, with the keys
\* name, description and image the service reads.
RecTable ==
    [
      \* named after the destination; the image is the empty string the prompt asks for
      R1 |-> [name |-> Str(<<"K", "y", "o", "t", "o", " ", "T", "o", "w", "e", "r">>),
              description |-> Str(<<>>),
              image |-> Str(<<>>)],
      \* the destination only shows once white space is removed
      R2 |-> [name |-> Str(<<"K", "y", "o", " ", "t", "o", " ", "G", "y", "o", "e", "n">>),
              description |-> Absent,
              image |-> Absent],
      \* mentions neither Kyoto nor Nara
      R3 |-> [name |-> Str(<<"T", "o", "k", "y", "o", " ", "T", "o", "w", "e", "r">>),
              description |-> Str(<<"a", " ", "t", "o", "w", "e", "r">>),
              image |-> Str(Url(HttpsPrefix, Pad(8), DotJpg))],
      \* mentions the region only
      R4 |-> [name |-> Str(<<"T", "o", "d", "a", "i", "j", "i">>),
              description |-> Str(<<"a", " ", "t", "e", "m", "p", "l", "e", " ", "i", "n", " ",
                "N", "a", "r", "a">>),
              image |-> Str(<<>>)],
      \* no name; the description mentions the destination
      R5 |-> [name |-> Absent,
              description |-> Str(<<"a", " ", "w", "a", "l", "k", " ", "i", "n", " ", "K", "y",
                "o", "t", "o">>),
              image |-> Absent],
      \* the name is a number
      R6 |-> [name |-> Number,
              description |-> Str(<<>>),
              image |-> Str(<<>>)],
      \* image of 15 characters
      R7 |-> [name |-> Kyoto,
              description |-> Str(<<>>),
              image |-> Str(Url(HttpsPrefix, Pad(3), DotJpg))],
      \* image of 14 characters
      R8 |-> [name |-> Kyoto,
              description |-> Str(<<>>),
              image |-> Str(Url(HttpsPrefix, Pad(2), DotJpg))],
      \* image of 300 characters
      R9 |-> [name |-> Kyoto,
              description |-> Str(<<>>),
              image |-> Str(Url(HttpsPrefix, Pad(288), DotJpg))],
      \* image of 301 characters
      R10 |-> [name |-> Kyoto,
              description |-> Str(<<>>),
              image |-> Str(Url(HttpsPrefix, Pad(289), DotJpg))],
      \* image that is not https
      R11 |-> [name |-> Kyoto,
              description |-> Str(<<>>),
              image |-> Str(Url(<<"h", "t", "t", "p", ":", "/", "/">>, Pad(8), DotJpg))],
      \* extension in upper case
      R12 |-> [name |-> Kyoto,
              description |-> Str(<<>>),
              image |-> Str(Url(HttpsPrefix, Pad(8), <<".", "J", "P", "G">>))],
      \* no image extension
      R13 |-> [name |-> Kyoto,
              description |-> Str(<<>>),
              image |-> Str(Url(HttpsPrefix, Pad(8), <<".", "t", "x", "t">>))],
      \* extension followed by a query
      R14 |-> [name |-> Kyoto,
              description |-> Str(<<>>),
              image |-> Str(Url(HttpsPrefix, Pad(8), <<".", "j", "p", "e", "g", "?", "w", "=", "1">>))],
      \* query with a line break
      R15 |-> [name |-> Kyoto,
              description |-> Str(<<>>),
              image |-> Str(Url(HttpsPrefix, Pad(8), <<".", "p", "n", "g", "?", "a", "\n", "b">>))],
      \* line break before the extension
      R16 |-> [name |-> Kyoto,
              description |-> Str(<<>>),
              image |-> Str(Url(HttpsPrefix, <<"a", "\n", "a", "a", "a", "a", "a", "a">>, <<".", "g", "i", "f">>))],
      \* the image is a number
      R17 |-> [name |-> Kyoto,
              description |-> Str(<<>>),
              image |-> Number],
      \* extension followed by a letter
      R18 |-> [name |-> Kyoto,
              description |-> Str(<<>>),
              image |-> Str(Url(HttpsPrefix, Pad(8), <<".", "j", "p", "g", "x">>))] ]

-----------------------------------------------------------------------------
(* JSON.parse, on the JSON the characters of the model can spell: numbers  *)
(* of the digit 1, null (one token), arrays, the empty object, and object  *)
(* literals written as one token each (ObjectTokens).                      *)

\* an object literal of the model text, one token each
ObjectTokens == DOMAIN RecTable

NoValue == [kind |-> "none", text |-> <<>>, items |-> <<>>]
ParseFail == [ok |-> FALSE, val |-> NoValue, next |-> 0]

\* the first position at or after i that holds no white space
SkipWs(t, i) ==
    Min({ j \in i..(Len(t) + 1) : j = Len(t) + 1 \/ ~IsSpace(t[j]) })

RECURSIVE ParseValue(_, _), ParseItems(_, _, _)

\* the JSON value that starts at position i
ParseValue(t, i) ==
    IF i > Len(t) THEN ParseFail
    ELSE IF t[i] = "1" THEN
        LET j == Min({ q \in i..(Len(t) + 1) : q = Len(t) + 1 \/ t[q] # "1" })
        IN  [ok |-> TRUE, next |-> j,
             val |-> [kind |-> "number", text |-> SubSeq(t, i, j - 1),
                      items |-> <<>>]]
    ELSE IF t[i] = "null" THEN
        [ok |-> TRUE, next |-> i + 1,
         val |-> [kind |-> "null", text |-> <<>>, items |-> <<>>]]
    ELSE IF t[i] \in ObjectTokens THEN
        [ok |-> TRUE, next |-> i + 1,
         val |-> [kind |-> "object", text |-> <<t[i]>>, items |-> <<>>]]
    ELSE IF t[i] = "{" THEN
        LET j == SkipWs(t, i + 1)
        IN  IF j <= Len(t) /\ t[j] = "}"
            THEN [ok |-> TRUE, next |-> j + 1,
                  val |-> [kind |-> "object", text |-> <<"{", "}">>,
                           items |-> <<>>]]
            ELSE ParseFail
    ELSE IF t[i] = "[" THEN
        LET j == SkipWs(t, i + 1)
        IN  IF j <= Len(t) /\ t[j] = "]"
            THEN [ok |-> TRUE, next |-> j + 1,
                  val |-> [kind |-> "array", text |-> <<>>, items |-> <<>>]]
            ELSE ParseItems(t, j, <<>>)
    ELSE ParseFail

\* the elements of an array from position i on, acc being those read so far
ParseItems(t, i, acc) ==
    LET v == ParseValue(t, i)
    IN  IF ~v.ok THEN ParseFail
        ELSE
          LET j == SkipWs(t, v.next)
          IN  IF j > Len(t) THEN ParseFail
              ELSE IF t[j] = "]"
              THEN [ok |-> TRUE, next |-> j + 1,
                    val |-> [kind |-> "array", text |-> <<>>,
                             items |-> Append(acc, v.val)]]
              ELSE IF t[j] = ","
              THEN ParseItems(t, SkipWs(t, j + 1), Append(acc, v.val))
              ELSE ParseFail

\* JSON.parse(jsonString): ok is FALSE where it throws a SyntaxError
JSONParse(t) ==
    LET v == ParseValue(t, SkipWs(t, 1))
    IN  IF v.ok /\ SkipWs(t, v.next) = Len(t) + 1
        THEN [ok |-> TRUE, val |-> v.val]
        ELSE [ok |-> FALSE, val |-> NoValue]

-----------------------------------------------------------------------------
(* Dates: "YYYY-MM-DD" strings, as <input type="date"> produces them, are  *)
(* records [y, m, d]; new Date(s) reads them as midnight UTC.              *)

\* the empty string of a date field that is not filled in
NoDate == [y |-> 0, m |-> 0, d |-> 0]

FirstDate == [y |-> 2023, m |-> 12, d |-> 25]

IsLeapYear(y) == (y % 4 = 0 /\ y % 100 # 0) \/ y % 400 = 0

DaysInMonth(y, m) ==
    IF m = 2 THEN (IF IsLeapYear(y) THEN 29 ELSE 28)
    ELSE IF m \in {4, 6, 9, 11} THEN 30 ELSE 31

\* the valid dates of the months the model takes its dates from
Calendar ==
    { [y |-> ym[1], m |-> ym[2], d |-> d] :
        ym \in { <<2023, 12>>, <<2024, 1>>, <<2024, 2>>, <<2024, 3>>, <<2024, 4>> },
        d \in 1..31 } \ { c \in [y : {2023, 2024}, m : 1..12, d : 1..31] :
                             c.d > DaysInMonth(c.y, c.m) }

\* date a is an earlier calendar day than date b
Before(a, b) ==
    \/ a.y < b.y
    \/ a.y = b.y /\ a.m < b.m
    \/ a.y = b.y /\ a.m = b.m /\ a.d < b.d

\* how many calendar days lie between FirstDate and date
DayIndex(date) ==
    Cardinality({ c \in Calendar : Before(c, date) })
      - Cardinality({ c \in Calendar : Before(c, FirstDate) })

Dates == { c \in Calendar : DayIndex(c) \in 0..DateSpan }

\* the day number of a date of the Gregorian calendar, counted from
\* 1970-01-01, as ECMAScript's MakeDay computes it
DaysFromCivil(date) ==
    LET y   == IF date.m <= 2 THEN date.y - 1 ELSE date.y
        era == y \div 400
        yoe == y - era * 400
        mp  == IF date.m > 2 THEN date.m - 3 ELSE date.m + 9
        doy == (153 * mp + 2) \div 5 + date.d - 1
        doe == yoe * 365 + yoe \div 4 - yoe \div 100 + doy
    IN  era * 146097 + doe - 719468

\* 1000 * 60 * 60 * 24
MsPerDay == 1000 * 60 * 60 * 24

\* A time value, in milliseconds since 1970-01-01T00:00Z, is
\* days * MsPerDay + ms with 0 <= ms < MsPerDay; it is kept as the pair
\* [days, ms], the product being too large for the integers of TLC.

\* new Date(s).getTime()
GetTime(date) == [days |-> DaysFromCivil(date), ms |-> 0]

\* a - b on time values
TimeMinus(a, b) ==
    IF a.ms - b.ms < 0
    THEN [days |-> a.days - b.days - 1, ms |-> a.ms - b.ms + MsPerDay]
    ELSE [days |-> a.days - b.days, ms |-> a.ms - b.ms]

\* Math.ceil(t / (1000 * 60 * 60 * 24))
MathCeilDays(t) == t.days + (IF t.ms > 0 THEN 1 ELSE 0)

\* TripDays without the day that counts the start date itself
TripDaysExclusive(startDate, endDate) ==
    MathCeilDays(TimeMinus(GetTime(endDate), GetTime(startDate)))

\* TripDays on the absolute difference of the two dates
TripDaysAbsolute(startDate, endDate) ==
    LET diff == TimeMinus(GetTime(endDate), GetTime(startDate))
    IN  MathCeilDays(IF diff.days < 0
                     THEN TimeMinus(GetTime(startDate), GetTime(endDate))
                     ELSE diff) + 1

\* Math.ceil((end.getTime() - start.getTime()) / (1000*60*60*24)) + 1
TripDays(startDate, endDate) ==
    MathCeilDays(TimeMinus(GetTime(endDate), GetTime(startDate))) + 1

\* const nights = days - 1
TripNights(days) == days - 1

\* calculateTravelDuration of TravelForm.tsx
calculateTravelDuration(formData) ==
    IF formData.startDate = NoDate \/ formData.endDate = NoDate
    THEN [days |-> 0, nights |-> 0]
    ELSE LET days == TripDays(formData.startDate, formData.endDate)
         IN  [days |-> days, nights |-> TripNights(days)]

\* createTravelPrompt: the fields the template embeds
\* (description || "tokuni nashi": the text used when no request is given)
createTravelPrompt(travelData) ==
    LET days == TripDays(travelData.startDate, travelData.endDate)
    IN  [destination |-> travelData.destination,
         startDate   |-> travelData.startDate,
         endDate     |-> travelData.endDate,
         nights      |-> TripNights(days),
         days        |-> days,
         memberCount |-> travelData.memberCount,
         budget      |-> travelData.budget,
         interests   |-> travelData.interests,
         travelStyle |-> travelData.travelStyle,
         description |-> IF travelData.description = ""
                         THEN "tokuni nashi" ELSE travelData.description]

-----------------------------------------------------------------------------
(* generateMockPlan (aiService.ts lines 147-202).                          *)

\* Math.round(budget * tenths / 10): the nearest integer, a half rounded up
\* (for the budgets of the model the double product rounds as the exact one)
MathRoundTenths(budget, tenths) == (budget * tenths + 5) \div 10

\* the budget block, lines 190-195
MockBudget(budget) ==
    [transportation |-> MathRoundTenths(budget, 3),
     accommodation  |-> MathRoundTenths(budget, 4),
     food           |-> MathRoundTenths(budget, 2),
     activities     |-> MathRoundTenths(budget, 1)]

\* generateMockPlan with the two schedule items in the other order
generateMockPlanSwapped(travelData) ==
    [schedule |->
       << [date  |-> travelData.startDate,
           day   |-> "Day 1",
           items |->
             << [time        |-> "14:00",
                 title       |-> <<"recommended sightseeing spot">>,
                 location    |-> <<travelData.destination, " sights">>,
                 description |-> <<travelData.interests,
                                   " based recommended spot">>,
                 category    |-> "sightseeing"],
                [time        |-> "09:00",
                 title       |-> <<travelData.destination, " arrival">>,
                 location    |-> <<travelData.destination>>,
                 description |-> <<"transfer from the airport or station">>,
                 category    |-> "transport"] >>] >>,
     places |->
       << [name        |-> <<travelData.destination, " popular spot">>,
           category    |-> "sightseeing area",
           rating      |-> "4.5",
           description |-> "a place the AI chose"] >>,
     budget |-> MockBudget(travelData.budget),
     recommendations |->
       [mustVisit |-> << <<travelData.destination, " must-see spot">> >>,
        localFood |-> << <<travelData.destination, " local speciality">> >>,
        tips      |-> << "check the local weather",
                         "check the public transport timetable" >>]]

\* a template string is the sequence of its parts; the fixed Japanese texts
\* are written by their meaning
generateMockPlan(travelData) ==
    [schedule |->
       << [date  |-> travelData.startDate,
           day   |-> "Day 1",
           items |->
             << [time        |-> "09:00",
                 title       |-> <<travelData.destination, " arrival">>,
                 location    |-> <<travelData.destination>>,
                 description |-> <<"transfer from the airport or station">>,
                 category    |-> "transport"],
                [time        |-> "14:00",
                 title       |-> <<"recommended sightseeing spot">>,
                 location    |-> <<travelData.destination, " sights">>,
                 description |-> <<travelData.interests,
                                   " based recommended spot">>,
                 category    |-> "sightseeing"] >>] >>,
     places |->
       << [name        |-> <<travelData.destination, " popular spot">>,
           category    |-> "sightseeing area",
           rating      |-> "4.5",
           description |-> "a place the AI chose"] >>,
     budget |-> MockBudget(travelData.budget),
     recommendations |->
       [mustVisit |-> << <<travelData.destination, " must-see spot">> >>,
        localFood |-> << <<travelData.destination, " local speciality">> >>,
        tips      |-> << "check the local weather",
                         "check the public transport timetable" >>]]

-----------------------------------------------------------------------------
(* The travel-creation wizard: TravelCreator (its steps form, ai-generation *)
(* and review), the form's validation (TravelForm.tsx), and the state of    *)
(* AIGenerationStep.                                                        *)

Null == "null"

\* a - b < 0 on time values
TimeBefore(a, b) == a.days < b.days \/ (a.days = b.days /\ a.ms < b.ms)

\* 1000 * 60 * 60
MsPerHour == 1000 * 60 * 60

\* const today = new Date(); today.setHours(0, 0, 0, 0): midnight of the
\* calendar day today in a time zone tz hours ahead of UTC
LocalMidnight(today, tz) ==
    TimeMinus(GetTime(today), [days |-> 0, ms |-> tz * MsPerHour])

\* validateDates, TravelForm.tsx lines 73-109
validateDates(formData, today, tz) ==
    IF formData.startDate = NoDate \/ formData.endDate = NoDate
    THEN [isValid |-> FALSE, message |-> ""]
    ELSE
      LET startDate == GetTime(formData.startDate)
          endDate   == GetTime(formData.endDate)
      IN  IF TimeBefore(startDate, LocalMidnight(today, tz))
          THEN [isValid |-> FALSE, message |-> "start date before today"]
          ELSE IF TimeBefore(endDate, startDate)
          THEN [isValid |-> FALSE, message |-> "end date before start date"]
          ELSE IF MathCeilDays(TimeMinus(endDate, startDate)) > 365
          THEN [isValid |-> FALSE, message |-> "longer than one year"]
          ELSE [isValid |-> TRUE, message |-> ""]

\* isFormValid without the validation of the dates
isFormValidNoDates(formData, today, tz) ==
    /\ Trim(formData.title) # <<>>
    /\ Trim(formData.destination) # <<>>
    /\ formData.startDate # NoDate
    /\ formData.endDate # NoDate
    /\ formData.memberCount > 0
    /\ formData.budget > 0

\* isFormValid, TravelForm.tsx lines 130-142
isFormValid(formData, today, tz) ==
    /\ Trim(formData.title) # <<>>
    /\ Trim(formData.destination) # <<>>
    /\ formData.startDate # NoDate
    /\ formData.endDate # NoDate
    /\ formData.memberCount > 0
    /\ formData.budget > 0
    /\ validateDates(formData, today, tz).isValid

\* the form data TravelCreator starts with, part_002 lines 38-48
BlankForm ==
    [title |-> <<>>, destination |-> <<>>, startDate |-> NoDate,
     endDate |-> NoDate, memberCount |-> 2, budget |-> 50000]

\* the calendar day on which the wizard is used
WizToday == [y |-> 2024, m |-> 3, d |-> 10]

\* the time zones of the browser, in hours ahead of UTC (Tokyo, New York)
TimeZones == {9, -5}

\* what the user can have typed into the form
WizFormDatas ==
    { BlankForm,
      [BlankForm EXCEPT !.title = <<"T">>, !.destination = <<"K">>,
                        !.startDate = [y |-> 2024, m |-> 3, d |-> 15],
                        !.endDate = [y |-> 2024, m |-> 3, d |-> 17]],
      [BlankForm EXCEPT !.title = <<" ">>, !.destination = <<"K">>,
                        !.startDate = [y |-> 2024, m |-> 3, d |-> 15],
                        !.endDate = [y |-> 2024, m |-> 3, d |-> 17]],
      [BlankForm EXCEPT !.title = <<"T">>, !.destination = <<"K">>,
                        !.startDate = [y |-> 2024, m |-> 3, d |-> 17],
                        !.endDate = [y |-> 2024, m |-> 3, d |-> 15]],
      [BlankForm EXCEPT !.title = <<"T">>, !.destination = <<"K">>,
                        !.startDate = WizToday, !.endDate = WizToday],
      [BlankForm EXCEPT !.title = <<"T">>, !.destination = <<"K">>,
                        !.startDate = [y |-> 2024, m |-> 3, d |-> 9],
                        !.endDate = [y |-> 2024, m |-> 3, d |-> 17]],
      [BlankForm EXCEPT !.title = <<"T">>, !.destination = <<"K">>,
                        !.startDate = [y |-> 2024, m |-> 3, d |-> 15],
                        !.endDate = [y |-> 2025, m |-> 3, d |-> 15]],
      [BlankForm EXCEPT !.title = <<"T">>, !.destination = <<"K">>,
                        !.startDate = [y |-> 2024, m |-> 3, d |-> 15],
                        !.endDate = [y |-> 2025, m |-> 3, d |-> 16]],
      [BlankForm EXCEPT !.title = <<"T">>, !.destination = <<"K">>,
                        !.startDate = [y |-> 2024, m |-> 3, d |-> 15]],
      [BlankForm EXCEPT !.title = <<"T">>, !.destination = <<" ">>,
                        !.startDate = [y |-> 2024, m |-> 3, d |-> 15],
                        !.endDate = [y |-> 2024, m |-> 3, d |-> 17]],
      [BlankForm EXCEPT !.title = <<"T">>, !.destination = <<"K">>,
                        !.startDate = [y |-> 2024, m |-> 3, d |-> 15],
                        !.endDate = [y |-> 2024, m |-> 3, d |-> 17],
                        !.memberCount = -1],
      [BlankForm EXCEPT !.title = <<"T">>, !.destination = <<"K">>,
                        !.startDate = [y |-> 2024, m |-> 3, d |-> 15],
                        !.endDate = [y |-> 2024, m |-> 3, d |-> 17],
                        !.budget = 0] }

\* the AIGenerationStep that is not mounted
NoInst ==
    [mounted |-> FALSE, id |-> 0, isGenerating |-> FALSE, currentStep |-> 0,
     error |-> Null, intervals |-> {}]

\* TravelCreator as it is constructed (part_002 lines 32-51), with what is
\* under way around it: open is FALSE once App has left the creator view,
\* attempts counts the calls of generatePlan and mounts the AIGenerationSteps
\* mounted, requests are the travelApi.generatePlan calls awaited, timers the
\* pending setTimeout callbacks in the order they were set, creating the
\* travelApi.create calls awaited and created all those made
IdleWiz ==
    [open |-> TRUE, step |-> "form", error |-> Null, formData |-> BlankForm,
     generatedPlan |-> Null, today |-> WizToday, tz |-> 9, inst |-> NoInst,
     attempts |-> 0, mounts |-> 0, requests |-> {}, timers |-> <<>>,
     creating |-> 0, created |-> 0]

-----------------------------------------------------------------------------
(* The state of the AI recommendations tab (BudgetOverview.tsx lines        *)
(* 693-695): res is the response its last request was answered with and     *)
(* rejected tells that the request threw instead; alert is the text of the  *)
(* dialog window.alert shows.                                               *)

NoRes ==
    [success |-> TRUE, recommendations |-> <<>>, message |-> Null,
     error |-> Null]

IdleTab ==
    [recommendations |-> <<>>, isGenerating |-> FALSE, pending |-> FALSE,
     res |-> NoRes, rejected |-> FALSE, alert |-> Null, places |-> <<>>,
     requests |-> 0]

-----------------------------------------------------------------------------
(* The state of the room-assignment tab (part_007 lines 61-154): the        *)
(* members and rooms in their order, one room assignment per day (a         *)
(* function from the room ids to the member ids in the room, in order; a    *)
(* room without an entry has none), the index of the day shown, and the     *)
(* pending timers of autoAssignAllDays with the values their callback       *)
(* closed over.                                                             *)

RatMembers == <<1, 2, 3, 4, 5>>

RatRooms ==
    << [id |-> "101", capacity |-> 2, isAvailable |-> TRUE],
       [id |-> "102", capacity |-> 2, isAvailable |-> TRUE],
       [id |-> "201", capacity |-> 3, isAvailable |-> TRUE] >>

RoomIds == { RatRooms[i].id : i \in 1..Len(RatRooms) }

\* the roomAssignments {}
NoAssignments == [r \in RoomIds |-> <<>>]

NoTravelInfo == [given |-> FALSE, nights |-> 0]

IdleRat ==
    [travelInfo |-> NoTravelInfo, members |-> RatMembers, rooms |-> RatRooms,
     dayAssignments |->
       << [NoAssignments EXCEPT !["101"] = <<1, 3>>, !["102"] = <<2, 4>>],
          [NoAssignments EXCEPT !["101"] = <<1, 3>>, !["102"] = <<2, 4>>],
          [NoAssignments EXCEPT !["201"] = <<1, 2, 5>>, !["102"] = <<3, 4>>] >>,
     currentDayIndex |-> 0, timers |-> <<>>, edits |-> 0, autos |-> 0]

-----------------------------------------------------------------------------
(* The members' tags in the room-assignment tab (part_007 lines 61-92 and   *)
(* 161-168): the preferences of each member, in the order of the members,   *)
(* as the set of the tags in the array; the tags 静か, 景色重視, コスト重視, *)
(* アクセス重視, 禁煙 and Wi-Fi重視 are written q, v, c, a, n and w.          *)

InitialTags == << <<"q">>, <<"v">>, <<"c">>, <<"a">>, <<"n">>, <<"w">> >>

InitialPreferences ==
    << { <<"q">>, <<"n">> }, { <<"v">>, <<"n">> }, { <<"c">> },
       { <<"v">>, <<"q">> }, { <<"a">> } >>

IdleTags ==
    [members |-> InitialPreferences, bulkEditMembers |-> <<>>,
     editMode |-> FALSE, availableTags |-> InitialTags, sessions |-> 0,
     updates |-> 0, adds |-> 0]

-----------------------------------------------------------------------------
(* The state of the schedule tab (schedule/index.tsx lines 110 and          *)
(* 149-154): the items of each day with their id and time (a text, empty    *)
(* when the item has no time), the day and the item the open modal is for,  *)
(* and the id the next new item gets.  The day index null is written -1.    *)

IdleSchedule ==
    [schedule |-> <<>>, selectedDayIndex |-> -1, modal |-> "none",
     editingItem |-> Null, nextId |-> 1, saves |-> 0, reorders |-> 0]

-----------------------------------------------------------------------------
(* The state of the tab with a category list that is shown: the budget tab  *)
(* (part_007 lines 1136-1153) or the packing tab (BudgetOverview.tsx lines  *)
(* 294-311); part_011 lines 73-77 render one of them.  entries are the      *)
(* expenses or the packing items.  A category is written by one letter:     *)
(* t 交通費, l 宿泊費, f 食費, s 観光費, p ショッピング, d 書類, c 衣類,    *)
(* h 美容・健康, a アクセサリー, e 電子機器, o その他, x a new one.         *)

IdleCategories ==
    [shown |-> "none", categories |-> <<>>, entries |-> <<>>, nextId |-> 1,
     adds |-> 0, saves |-> 0]

-----------------------------------------------------------------------------
(* The model client and generateTravelPlan (aiService.ts lines 4-17 and    *)
(* 104-142).                                                               *)

\* new Error(message)
Error(message) == [isError |-> TRUE, message |-> message]

\* a thrown value that is no Error object
NonError == [isError |-> FALSE, message |-> ""]

NoError == [isError |-> FALSE, message |-> "none"]

\* the `error` key of a result that has none
Undefined == "undefined"

\* getGenAIClient without the test of the slot: a client is built on every
\* call
getGenAIClientUncached(slot, key) ==
    IF key = ""
    THEN [threw |-> TRUE, error |-> Error("GEMINI_API_KEY is not defined"),
          genAI |-> slot, built |-> 0]
    ELSE [threw |-> FALSE, error |-> NoError, genAI |-> "client", built |-> 1]

\* getGenAIClient applied to the slot and the environment: what it throws,
\* or the slot it leaves and returns, and how many clients it built (line 14)
getGenAIClient(slot, key) ==
    IF slot = "null"
    THEN IF key = ""
         THEN [threw |-> TRUE, error |-> Error("GEMINI_API_KEY is not defined"),
               genAI |-> slot, built |-> 0]
         ELSE [threw |-> FALSE, error |-> NoError, genAI |-> "client",
               built |-> 1]
    ELSE [threw |-> FALSE, error |-> NoError, genAI |-> slot, built |-> 0]

\* what generateContent and response.text() throw: the errors of the SDK,
\* which carry a message, and values that are no Error
ModelErrors ==
    { Error("[GoogleGenerativeAI Error]: fetch failed"),
      Error("[GoogleGenerativeAI Error]: Candidate was blocked"),
      NonError }

\* what JSON.parse throws
SyntaxError == Error("Unexpected token in JSON")

\* ErrorMessage without the instanceof test: error.message of any thrown value
ErrorMessageUnchecked(error, fallbackText) == error.message

\* error instanceof Error ? error.message : fallbackText
ErrorMessage(error, fallbackText) ==
    IF error.isError THEN error.message ELSE fallbackText

\* the catch block of generateTravelPlan, lines 132-141
\* ("AI plan generation failed" stands for the Japanese text of line 139)
PlanCatch(travelData, error) ==
    [outcome |-> "Fallback",
     success |-> FALSE,
     data    |-> generateMockPlan(travelData),
     error   |-> ErrorMessage(error, "AI plan generation failed")]

\* PlanFromText with a check of the shape: only an object is accepted
PlanFromTextValidated(travelData, text) ==
    LET parsed == JSONParse(ExtractPlanJson(text))
    IN  IF parsed.ok /\ parsed.val.kind = "object" /\ parsed.val.text # <<"{", "}">>
        THEN [outcome |-> "Success", success |-> TRUE, data |-> parsed.val,
              error |-> Undefined]
        ELSE PlanCatch(travelData, SyntaxError)

\* lines 120-131: the statements of the try block after the model answered
PlanFromText(travelData, text) ==
    LET parsed == JSONParse(ExtractPlanJson(text))
    IN  IF parsed.ok
        THEN [outcome |-> "Success", success |-> TRUE, data |-> parsed.val,
              error |-> Undefined]
        ELSE PlanCatch(travelData, SyntaxError)

NoTravelData ==
    [destination |-> "", startDate |-> NoDate, endDate |-> NoDate,
     memberCount |-> 0, budget |-> 0, interests |-> <<>>, travelStyle |-> "",
     description |-> ""]

NoResult ==
    [outcome |-> "none", success |-> FALSE, data |-> NoValue,
     error |-> Undefined]

\* an invocation: where it stands, its argument, how many times it called the
\* model, the text the model answered (got says whether it did), what was
\* thrown inside the try block, and what it returns
IdlePlan ==
    [pc |-> "idle", travelData |-> NoTravelData, calls |-> 0,
     got |-> FALSE, text |-> <<>>, thrown |-> NoError, result |-> NoResult]

\* the invocation once the call has settled with result r after error e
\* (NoError when nothing was thrown)
PlanSettled(p, e, r) == [p EXCEPT !.pc = "done", !.thrown = e, !.result = r]

\* the call rejected with error and returned nothing
PlanAborted(p, error) ==
    PlanSettled(p, error, [NoResult EXCEPT !.outcome = "Aborted"])

\* PlanBegin with getGenAIClient called before the try block
PlanBeginOutsideTry(travelData, client) ==
    IF client.threw
    THEN PlanAborted([IdlePlan EXCEPT !.travelData = travelData], client.error)
    ELSE [IdlePlan EXCEPT !.pc = "awaitModel", !.travelData = travelData,
                          !.calls = 1]

\* lines 114-118: getGenAIClient, createTravelPrompt, then generateContent is
\* called and awaited; an error of getGenAIClient is thrown inside the try
PlanBegin(travelData, client) ==
    IF client.threw
    THEN PlanSettled([IdlePlan EXCEPT !.travelData = travelData],
                     client.error, PlanCatch(travelData, client.error))
    ELSE [IdlePlan EXCEPT !.pc = "awaitModel", !.travelData = travelData,
                          !.calls = 1]

\* PlanAfterThrow with a retry: the model is called once more
PlanAfterThrowRetry(p, error) == [p EXCEPT !.calls = p.calls + 1]

\* the awaited model call rejected with error: control enters the catch block
PlanAfterThrow(p, error) ==
    PlanSettled(p, error, PlanCatch(p.travelData, error))

\* the awaited model call answered with text
PlanAfterText(p, text) ==
    LET r == PlanFromText(p.travelData, text)
    IN  PlanSettled([p EXCEPT !.got = TRUE, !.text = text],
                    IF r.success THEN NoError ELSE SyntaxError, r)

\* the travelData of the plan-generation requests of the model
PlanTravelDatas ==
    { [destination |-> "Kyoto", startDate |-> se[1], endDate |-> se[2],
       memberCount |-> 2, budget |-> b, interests |-> i,
       travelStyle |-> "balanced", description |-> ""] :
      se \in { <<[y |-> 2024, m |-> 3, d |-> 15], [y |-> 2024, m |-> 3, d |-> 17]>> },
      b \in {30000, 5}, i \in { <<>>, <<"history", "gourmet">> } }

PlanTexts == UNION { { Flatten(s) : s \in [1..n -> Segments] } : n \in 0..MaxPlanSegs }

NoPrefs == [destination |-> <<>>, region |-> Absent]

NoRecResult == [success |-> FALSE, recommendations |-> <<>>, error |-> Undefined]

\* an invocation of generateRecommendations: as IdlePlan, with the error the
\* inner try block threw (inner) and the elements of the parsed array (items)
IdleRec ==
    [pc |-> "idle", prefs |-> NoPrefs, calls |-> 0, got |-> FALSE,
     text |-> <<>>, inner |-> NoError, thrown |-> NoError, items |-> <<>>,
     result |-> NoRecResult]
\* the result of an extractNamesFromImage invocation that has not returned
NoNames == [kind |-> "none", val |-> NoValue, lines |-> <<>>]

\* an invocation of extractNamesFromImage: as IdlePlan
IdleName ==
    [pc |-> "idle", calls |-> 0, got |-> FALSE, text |-> <<>>,
     thrown |-> NoError, result |-> NoNames]

IdleNames == [i \in 1..MaxNames |-> IdleName]

\* the extractor applied to text: which of the two extractors, the candidate
\* of the first application, the index after the match it found (what a
\* regular expression kept between calls would hold in lastIndex), how many
\* times it was applied and the candidate of the second application
IdleExt ==
    [text |-> <<>>, applied |-> "none", candidate |-> <<>>, lastIndex |-> 0,
     runs |-> 0, again |-> <<>>]
IdleMock == [travelData |-> NoTravelData, called |-> FALSE, plan |-> NoValue]
IdleDur == [startIndex |-> 0, endIndex |-> 0, startDate |-> NoDate,
            endDate |-> NoDate, applied |-> "none", days |-> 0, nights |-> 0]

\* generateTravelPlan(travelData) is called and runs to its await
generateTravelPlan(travelData) ==
    /\ plan.pc = "idle"
    /\ LET client == getGenAIClient(genAI, apiKey)
       IN  /\ genAI' = client.genAI
           /\ constructed' = constructed + client.built
           /\ plan' = PlanBegin(travelData, client)
    /\ UNCHANGED <<apiKey, rec, ext, mock, dur, names, wiz, tab, rat, tg,
                   sch, cat>>

\* the model answers the pending call with text
PlanModelResponds(text) ==
    /\ plan.pc = "awaitModel"
    /\ plan' = PlanAfterText(plan, text)
    /\ UNCHANGED <<apiKey, genAI, rec, ext, mock, dur, constructed, names,
                   wiz, tab, rat, tg, sch, cat>>

\* the pending model call fails
PlanModelThrows(error) ==
    /\ plan.pc = "awaitModel"
    /\ plan' = PlanAfterThrow(plan, error)
    /\ UNCHANGED <<apiKey, genAI, rec, ext, mock, dur, constructed, names,
                   wiz, tab, rat, tg, sch, cat>>

\* the caller has the result; the next request can come
PlanReturn ==
    /\ plan.pc = "done"
    /\ plan' = IdlePlan
    /\ UNCHANGED <<apiKey, genAI, rec, ext, mock, dur, constructed, names,
                   wiz, tab, rat, tg, sch, cat>>

PlanInit ==
    /\ apiKey \in {"", "key"}
    /\ genAI = "null"
    /\ plan = IdlePlan
    /\ rec = IdleRec
    /\ ext = IdleExt
    /\ mock = IdleMock
    /\ dur = IdleDur
    /\ constructed = 0
    /\ names = IdleNames
    /\ wiz = IdleWiz
    /\ tab = IdleTab
    /\ rat = IdleRat
    /\ tg = IdleTags
    /\ sch = IdleSchedule
    /\ cat = IdleCategories

PlanNext ==
    \/ \E travelData \in PlanTravelDatas : generateTravelPlan(travelData)
    \/ \E text \in PlanTexts : PlanModelResponds(text)
    \/ \E error \in ModelErrors : PlanModelThrows(error)
    \/ PlanReturn

SpecPlan == PlanInit /\ [][PlanNext]_vars

-----------------------------------------------------------------------------
(* The response extractor applied to each text of Texts, twice.           *)

\* the match of lines 123 and 286 that gives the candidate
ExtractorMatch(t, kind) ==
    LET fenced == MatchFencedJson(t)
    IN  IF fenced.found THEN fenced
        ELSE IF kind = "plan" THEN MatchObject(t) ELSE MatchArray(t)

\* the index of the last character of the match m in t, 0 without a match
MatchEnd(t, m) ==
    IF m.found
    THEN Min({ i \in 1..Len(t) : StartsAt(t, i, m.whole) }) + Len(m.whole) - 1
    ELSE 0

\* MatchStart for a pattern kept in one object with the flag g: the search
\* goes on after the match found before
MatchStartAtLastIndex(lastIndex) == lastIndex + 1

\* where text.match(/.../) starts to search: the literal is evaluated to a new
\* object without the flag g on every call, so at the first character,
\* whatever an earlier match found
MatchStart(lastIndex) == 1

\* the characters of t that a match looks at
Searched(t, lastIndex) == SubSeq(t, MatchStart(lastIndex), Len(t))

\* the extractor of kind applied to t after an extraction that left lastIndex
Extract(t, kind, lastIndex) ==
    IF kind = "plan" THEN ExtractPlanJson(Searched(t, lastIndex))
    ELSE ExtractRecommendationsJson(Searched(t, lastIndex))

ExtractForPlan ==
    /\ ext.applied = "none"
    /\ ext' = [ext EXCEPT !.applied = "plan", !.runs = 1,
                          !.candidate = Extract(ext.text, "plan", ext.lastIndex),
                          !.lastIndex =
                            MatchEnd(ext.text, ExtractorMatch(ext.text, "plan"))]
    /\ UNCHANGED <<apiKey, genAI, plan, rec, mock, dur, constructed, names,
                   wiz, tab, rat, tg, sch, cat>>

ExtractForRecommendations ==
    /\ ext.applied = "none"
    /\ ext' = [ext EXCEPT !.applied = "recommendations", !.runs = 1,
                          !.candidate =
                            Extract(ext.text, "recommendations", ext.lastIndex),
                          !.lastIndex =
                            MatchEnd(ext.text,
                                     ExtractorMatch(ext.text, "recommendations"))]
    /\ UNCHANGED <<apiKey, genAI, plan, rec, mock, dur, constructed, names,
                   wiz, tab, rat, tg, sch, cat>>

\* the same extractor applied to the same text a second time
ExtractAgain ==
    /\ ext.applied # "none"
    /\ ext.runs = 1
    /\ ext' = [ext EXCEPT !.runs = 2,
                          !.again = Extract(ext.text, ext.applied, ext.lastIndex)]
    /\ UNCHANGED <<apiKey, genAI, plan, rec, mock, dur, constructed, names,
                   wiz, tab, rat, tg, sch, cat>>

ExtractInit ==
    /\ apiKey = "key"
    /\ genAI = "null"
    /\ plan = IdlePlan
    /\ rec = IdleRec
    /\ ext \in { [IdleExt EXCEPT !.text = t] : t \in Texts }
    /\ mock = IdleMock
    /\ dur = IdleDur
    /\ constructed = 0
    /\ names = IdleNames
    /\ wiz = IdleWiz
    /\ tab = IdleTab
    /\ rat = IdleRat
    /\ tg = IdleTags
    /\ sch = IdleSchedule
    /\ cat = IdleCategories

ExtractNext == ExtractForPlan \/ ExtractForRecommendations \/ ExtractAgain

SpecExtract == ExtractInit /\ [][ExtractNext]_vars

-----------------------------------------------------------------------------
(* generateMockPlan applied to each travelData of MockTravelDatas.         *)

MockTravelDatas ==
    { [destination |-> dest, startDate |-> se[1], endDate |-> se[2],
       memberCount |-> 2, budget |-> b, interests |-> i,
       travelStyle |-> "balanced", description |-> ""] :
      dest \in {"Kyoto", "Nara"},
      se \in { <<[y |-> 2024, m |-> 3, d |-> 15], [y |-> 2024, m |-> 3, d |-> 17]>>,
                <<[y |-> 2024, m |-> 2, d |-> 28], [y |-> 2024, m |-> 3, d |-> 1]>> },
      b \in (0..MaxBudget) \cup {30000},
      i \in { <<>>, <<"history">>, <<"history", "gourmet">> } }

MockCall ==
    /\ ~mock.called
    /\ mock' = [mock EXCEPT !.called = TRUE,
                            !.plan = generateMockPlan(mock.travelData)]
    /\ UNCHANGED <<apiKey, genAI, plan, rec, ext, dur, constructed, names,
                   wiz, tab, rat, tg, sch, cat>>

MockInit ==
    /\ apiKey = "key"
    /\ genAI = "null"
    /\ plan = IdlePlan
    /\ rec = IdleRec
    /\ ext = IdleExt
    /\ mock \in { [IdleMock EXCEPT !.travelData = td] : td \in MockTravelDatas }
    /\ dur = IdleDur
    /\ constructed = 0
    /\ names = IdleNames
    /\ wiz = IdleWiz
    /\ tab = IdleTab
    /\ rat = IdleRat
    /\ tg = IdleTags
    /\ sch = IdleSchedule
    /\ cat = IdleCategories

MockNext == MockCall

SpecMock == MockInit /\ [][MockNext]_vars

-----------------------------------------------------------------------------
(* The trip length, as the prompt builder and the form compute it, applied *)
(* to each pair of dates of Dates.                                         *)

DurTravelData ==
    [NoTravelData EXCEPT !.startDate = dur.startDate, !.endDate = dur.endDate]

DurPrompt ==
    /\ dur.applied = "none"
    /\ LET prompt == createTravelPrompt(DurTravelData)
       IN  dur' = [dur EXCEPT !.applied = "prompt", !.days = prompt.days,
                              !.nights = prompt.nights]
    /\ UNCHANGED <<apiKey, genAI, plan, rec, ext, mock, constructed, names,
                   wiz, tab, rat, tg, sch, cat>>

DurForm ==
    /\ dur.applied = "none"
    /\ LET d == calculateTravelDuration(DurTravelData)
       IN  dur' = [dur EXCEPT !.applied = "form", !.days = d.days,
                              !.nights = d.nights]
    /\ UNCHANGED <<apiKey, genAI, plan, rec, ext, mock, constructed, names,
                   wiz, tab, rat, tg, sch, cat>>

DurInit ==
    /\ apiKey = "key"
    /\ genAI = "null"
    /\ plan = IdlePlan
    /\ rec = IdleRec
    /\ ext = IdleExt
    /\ mock = IdleMock
    /\ dur \in { [IdleDur EXCEPT !.startIndex = DayIndex(s),
                                 !.endIndex = DayIndex(e),
                                 !.startDate = s, !.endDate = e] :
                 s \in Dates, e \in Dates }
    /\ constructed = 0
    /\ names = IdleNames
    /\ wiz = IdleWiz
    /\ tab = IdleTab
    /\ rat = IdleRat
    /\ tg = IdleTags
    /\ sch = IdleSchedule
    /\ cat = IdleCategories

DurNext == DurPrompt \/ DurForm

SpecDates == DurInit /\ [][DurNext]_vars

-----------------------------------------------------------------------------
(* generateRecommendations (aiService.ts lines 268-325).                   *)

\* s.replace(/\s/g, '')
StripSpaces(s) == SelectSeq(s, LAMBDA c : ~IsSpace(c))

\* the placeholder of line 313
PlaceholderImage ==
    Str(<<"h", "t", "t", "p", "s", ":", "/", "/", "i", "m", "a", "g", "e",
        "s", ".", "p", "e", "x", "e", "l", "s", ".", "c", "o", "m", "/",
        "p", "h", "o", "t", "o", "s", "/", "1", "0", "0", "8", "1", "5",
        "5", "/", "p", "e", "x", "e", "l", "s", "-", "p", "h", "o", "t",
        "o", "-", "1", "0", "0", "8", "1", "5", "5", ".", "j", "p", "e",
        "g", "?", "a", "u", "t", "o", "=", "c", "o", "m", "p", "r", "e",
        "s", "s", "&", "w", "=", "6", "0", "0">>)

\* url.length >= 15 && url.length <= 300
MinImageLength == 15
MaxImageLength == 300

ImageExtensions ==
    { <<"j", "p", "g">>, <<"j", "p", "e", "g">>, <<"p", "n", "g">>,
      <<"w", "e", "b", "p">>, <<"g", "i", "f">>, <<"b", "m", "p">>,
      <<"s", "v", "g">> }

\* the lower-case letter of an upper-case letter of the model, else c itself
ToLower(c) ==
    CASE c = "J" -> "j" [] c = "P" -> "p" [] c = "G" -> "g" [] c = "E" -> "e"
      [] c = "N" -> "n" [] c = "W" -> "w" [] c = "B" -> "b" [] c = "I" -> "i"
      [] c = "F" -> "f" [] c = "M" -> "m" [] c = "S" -> "s" [] c = "V" -> "v"
      [] OTHER -> c

\* the characters the regex . does not match
IsLineTerminator(c) == c \in {"\n", "\r"}

\* /\.(jpg|jpeg|png|webp|gif|bmp|svg)(\?.*)?$/ matches at the dot at i;
\* ignoreCase is the flag i
ExtensionAt(url, i, ignoreCase) ==
    /\ url[i] = "."
    /\ \E e \in ImageExtensions :
         LET after == i + Len(e) + 1
         IN  /\ after - 1 <= Len(url)
             /\ \A k \in 1..Len(e) :
                  (IF ignoreCase THEN ToLower(url[i + k]) ELSE url[i + k]) = e[k]
             /\ \/ after = Len(url) + 1
                \/ /\ url[after] = "?"
                   /\ \A q \in (after + 1)..Len(url) : ~IsLineTerminator(url[q])

\* /\.(jpg|jpeg|png|webp|gif|bmp|svg)(\?.*)?$/i.test(url)
ExtensionTest(url) == \E i \in 1..Len(url) : ExtensionAt(url, i, TRUE)

\* isValidImage without the test of the extension
isValidImageAnyExtension(image) ==
    /\ image.type = "string"
    /\ StartsAt(image.chars, 1, HttpsPrefix)
    /\ Len(image.chars) >= MinImageLength
    /\ Len(image.chars) <= MaxImageLength

\* isValidImage, lines 300-305
isValidImage(image) ==
    /\ image.type = "string"
    /\ StartsAt(image.chars, 1, HttpsPrefix)
    /\ ExtensionTest(image.chars)
    /\ Len(image.chars) >= MinImageLength
    /\ Len(image.chars) <= MaxImageLength

\* (v || '') where a string method is then called on it: the text, and
\* whether the call throws a TypeError (v is a number, which has no replace)
OrEmpty(v) == IF v.type = "string" THEN v.chars ELSE <<>>

\* the filter callback of lines 306-309 with includes applied the wrong way
\* round (dest.includes(name))
RecMatchesReversed(fields, dest, region) ==
    LET name == StripSpaces(OrEmpty(fields.name))
        desc == StripSpaces(OrEmpty(fields.description))
    IN  \/ Includes(dest, name)
        \/ Includes(dest, desc)
        \/ (region # <<>> /\ (Includes(region, name) \/ Includes(region, desc)))

\* the filter callback of lines 306-309, on an element whose fields are
\* strings or absent
RecMatches(fields, dest, region) ==
    LET name == StripSpaces(OrEmpty(fields.name))
        desc == StripSpaces(OrEmpty(fields.description))
    IN  \/ Includes(name, dest)
        \/ Includes(desc, dest)
        \/ (region # <<>> /\ (Includes(name, region) \/ Includes(desc, region)))

\* the map callback of lines 310-315
WithImage(fields) ==
    [fields EXCEPT !.image = IF isValidImage(fields.image) THEN fields.image
                             ELSE PlaceholderImage]

\* the keys name, description and image of a parsed element: those of its
\* object literal, and none for the empty object, a number or an array
ElementFields(v) ==
    IF v.kind = "object" /\ v.text[1] \in ObjectTokens
    THEN RecTable[v.text[1]]
    ELSE [name |-> Absent, description |-> Absent, image |-> Absent]

\* the filter callback throws a TypeError on the element: rec is null, or
\* rec.name or rec.description is a number, which has no replace method
ElementThrows(v) ==
    \/ v.kind = "null"
    \/ ElementFields(v).name.type = "number"
    \/ ElementFields(v).description.type = "number"

TypeError == Error("replace is not a function")

\* line 292 ("the AI response is not an array")
NotArrayError == Error("AI response is not an array")

\* line 295 ("no valid recommendation list could be obtained from the AI")
InvalidListError == Error("no valid recommendation list from the AI")

\* RecCatch with a made-up list in place of the empty one
RecCatchMock(error) ==
    [success |-> FALSE, recommendations |-> <<WithImage(RecTable["R1"])>>,
     error |-> ErrorMessage(error, "AI recommendation generation failed")]

\* the catch block of generateRecommendations, lines 317-324
RecCatch(error) ==
    [success |-> FALSE, recommendations |-> <<>>,
     error |-> ErrorMessage(error, "AI recommendation generation failed")]

\* lines 298-316: the elements that match, each with its image checked
FilterAndMap(items, prefs) ==
    LET dest   == StripSpaces(prefs.destination)
        region == StripSpaces(OrEmpty(prefs.region))
        kept   == SelectSeq(items,
                    LAMBDA v : RecMatches(ElementFields(v), dest, region))
    IN  [i \in 1..Len(kept) |-> WithImage(ElementFields(kept[i]))]

\* lines 286-316: the statements of the try block after the model answered
RecFromText(r, text) ==
    LET parsed == JSONParse(ExtractRecommendationsJson(text))
        got    == [r EXCEPT !.pc = "done", !.got = TRUE, !.text = text]
    IN  IF ~parsed.ok
        THEN [got EXCEPT !.inner = SyntaxError, !.thrown = InvalidListError,
                         !.result = RecCatch(InvalidListError)]
        ELSE IF parsed.val.kind # "array"
        THEN [got EXCEPT !.inner = NotArrayError, !.thrown = InvalidListError,
                         !.result = RecCatch(InvalidListError)]
        ELSE IF \E i \in 1..Len(parsed.val.items) :
                  ElementThrows(parsed.val.items[i])
        THEN [got EXCEPT !.items = parsed.val.items, !.thrown = TypeError,
                         !.result = RecCatch(TypeError)]
        ELSE [got EXCEPT !.items = parsed.val.items,
                         !.result = [success |-> TRUE,
                                     recommendations |->
                                       FilterAndMap(parsed.val.items, r.prefs),
                                     error |-> Undefined]]

\* lines 278-282: getGenAIClient, the prompt, then generateContent is called
\* and awaited; an error of getGenAIClient is thrown inside the try
RecBegin(prefs, client) ==
    IF client.threw
    THEN [IdleRec EXCEPT !.pc = "done", !.prefs = prefs,
                         !.thrown = client.error,
                         !.result = RecCatch(client.error)]
    ELSE [IdleRec EXCEPT !.pc = "awaitModel", !.prefs = prefs, !.calls = 1]

\* the preferences of the recommendation requests of the model
RecPrefs ==
    { [destination |-> <<"K", "y", "o", "t", "o">>, region |-> Absent],
      [destination |-> <<"K", "y", "o", " ", "t", "o">>, region |-> Absent],
      [destination |-> <<"K", "y", "o", "t", "o">>, region |-> Str(<<"N", "a", "r", "a", " ">>)],
      [destination |-> <<"K", "y", "o", "t", "o">>, region |-> Str(<<" ">>)],
      [destination |-> <<" ">>, region |-> Absent] }

\* the elements a list of the model text is written with
ListElements == ObjectTokens

\* a JSON array literal with the elements es
RECURSIVE Commas(_)
Commas(es) ==
    IF Len(es) <= 1 THEN es ELSE <<Head(es), ",">> \o Commas(Tail(es))

ArrayLiteral(es) == <<"[">> \o Commas(es) \o <<"]">>

ListTexts ==
    UNION { { ArrayLiteral(es) : es \in [1..n -> ListElements] } : n \in 0..MaxRecs }

\* a text alone, in a fenced block labelled json, and in prose
Wrapped(body) ==
    { body,
      FenceJson \o <<"\n">> \o body \o <<"\n">> \o Fence,
      <<"x", " ">> \o body \o <<" ", "x">> }

\* texts that are no list of object literals
OtherTexts ==
    { <<>>, <<"x">>, <<"1">>, <<"{", "}">>, <<"null">>,
      <<"[", "1", "]">>, <<"[", "null", "]">>, <<"[", "{", "}", "]">>,
      <<"[", "R1", ",", "null", "]">>, <<"[", "[", "R1", "]", "]">>,
      <<"[", "R1">>,
      Fence \o <<"[", "R1", "]">> \o Fence,
      FenceJson \o <<"{", "}">> \o Fence,
      FenceJson \o Fence }

RecTexts == UNION { Wrapped(body) : body \in ListTexts } \cup OtherTexts

\* generateRecommendations(prefs) is called and runs to its await
generateRecommendations(prefs) ==
    /\ rec.pc = "idle"
    /\ LET client == getGenAIClient(genAI, apiKey)
       IN  /\ genAI' = client.genAI
           /\ constructed' = constructed + client.built
           /\ rec' = RecBegin(prefs, client)
    /\ UNCHANGED <<apiKey, plan, ext, mock, dur, names, wiz, tab, rat, tg,
                   sch, cat>>

\* the model answers the pending call with text
RecModelResponds(text) ==
    /\ rec.pc = "awaitModel"
    /\ rec' = RecFromText(rec, text)
    /\ UNCHANGED <<apiKey, genAI, plan, ext, mock, dur, constructed, names,
                   wiz, tab, rat, tg, sch, cat>>

\* the pending model call fails
RecModelThrows(error) ==
    /\ rec.pc = "awaitModel"
    /\ rec' = [rec EXCEPT !.pc = "done", !.thrown = error,
                          !.result = RecCatch(error)]
    /\ UNCHANGED <<apiKey, genAI, plan, ext, mock, dur, constructed, names,
                   wiz, tab, rat, tg, sch, cat>>

\* the caller has the result; the next request can come
RecReturn ==
    /\ rec.pc = "done"
    /\ rec' = IdleRec
    /\ UNCHANGED <<apiKey, genAI, plan, ext, mock, dur, constructed, names,
                   wiz, tab, rat, tg, sch, cat>>

RecInit ==
    /\ apiKey \in {"", "key"}
    /\ genAI = "null"
    /\ plan = IdlePlan
    /\ rec = IdleRec
    /\ ext = IdleExt
    /\ mock = IdleMock
    /\ dur = IdleDur
    /\ constructed = 0
    /\ names = IdleNames
    /\ wiz = IdleWiz
    /\ tab = IdleTab
    /\ rat = IdleRat
    /\ tg = IdleTags
    /\ sch = IdleSchedule
    /\ cat = IdleCategories

RecNext ==
    \/ \E prefs \in RecPrefs : generateRecommendations(prefs)
    \/ \E text \in RecTexts : RecModelResponds(text)
    \/ \E error \in ModelErrors : RecModelThrows(error)
    \/ RecReturn

SpecRec == RecInit /\ [][RecNext]_vars

-----------------------------------------------------------------------------
(* extractNamesFromImage (aiService.ts lines 330-354) and the three        *)
(* functions of the service running at the same time: each runs without    *)
(* interruption up to its await of the model and again after it.           *)

\* text.split(/\r?\n/).filter(Boolean): the lines of t that are not empty;
\* line is the line read so far
RECURSIVE SplitLines(_, _)
SplitLines(t, line) ==
    IF t = <<>> THEN (IF line = <<>> THEN <<>> ELSE <<line>>)
    ELSE IF Head(t) = "\n" \/ (Len(t) >= 2 /\ t[1] = "\r" /\ t[2] = "\n")
    THEN (IF line = <<>> THEN <<>> ELSE <<line>>)
           \o SplitLines(SubSeq(t, IF Head(t) = "\n" THEN 2 ELSE 3, Len(t)), <<>>)
    ELSE SplitLines(Tail(t), Append(line, Head(t)))

\* the catch block, lines 350-353
NamesCatch == [kind |-> "empty", val |-> NoValue, lines |-> <<>>]

\* lines 344-349: the statements of the try block after the model answered
NamesFromText(text) ==
    LET match == MatchArray(text)
    IN  IF match.found
        THEN LET parsed == JSONParse(match.whole)
             IN  IF parsed.ok
                 THEN [kind |-> "parsed", val |-> parsed.val, lines |-> <<>>]
                 ELSE NamesCatch
        ELSE [kind |-> "lines", val |-> NoValue,
              lines |-> SplitLines(text, <<>>)]

\* lines 331-342: getGenAIClient, then generateContent is called and awaited;
\* an error of getGenAIClient is thrown inside the try
NamesBegin(client) ==
    IF client.threw
    THEN [IdleName EXCEPT !.pc = "done", !.thrown = client.error,
                          !.result = NamesCatch]
    ELSE [IdleName EXCEPT !.pc = "awaitModel", !.calls = 1]

\* extractNamesFromImage(imageBase64) is called and runs to its await
extractNamesFromImage(i) ==
    /\ names[i].pc = "idle"
    /\ LET client == getGenAIClient(genAI, apiKey)
       IN  /\ genAI' = client.genAI
           /\ constructed' = constructed + client.built
           /\ names' = [names EXCEPT ![i] = NamesBegin(client)]
    /\ UNCHANGED <<apiKey, plan, rec, ext, mock, dur, wiz, tab, rat, tg, sch,
                   cat>>

\* the model answers the pending call of invocation i with text
NamesModelResponds(i, text) ==
    /\ names[i].pc = "awaitModel"
    /\ names' = [names EXCEPT ![i] =
                   [@ EXCEPT !.pc = "done", !.got = TRUE, !.text = text,
                             !.thrown = IF NamesFromText(text) = NamesCatch
                                        THEN SyntaxError ELSE NoError,
                             !.result = NamesFromText(text)]]
    /\ UNCHANGED <<apiKey, genAI, plan, rec, ext, mock, dur, constructed,
                   wiz, tab, rat, tg, sch, cat>>

\* the pending model call of invocation i fails
NamesModelThrows(i, error) ==
    /\ names[i].pc = "awaitModel"
    /\ names' = [names EXCEPT ![i] =
                   [@ EXCEPT !.pc = "done", !.thrown = error,
                             !.result = NamesCatch]]
    /\ UNCHANGED <<apiKey, genAI, plan, rec, ext, mock, dur, constructed,
                   wiz, tab, rat, tg, sch, cat>>

\* the caller has the result; the next request can come
NamesReturn(i) ==
    /\ names[i].pc = "done"
    /\ names' = [names EXCEPT ![i] = IdleName]
    /\ UNCHANGED <<apiKey, genAI, plan, rec, ext, mock, dur, constructed,
                   wiz, tab, rat, tg, sch, cat>>

\* the requests and the model answers of the concurrent runs
ServiceTravelDatas == { td \in PlanTravelDatas : td.budget = 5 /\ td.interests = <<>> }
ServicePrefs == { [destination |-> <<"K", "y", "o", "t", "o">>, region |-> Absent] }
ServiceTexts == { <<"[", "R1", "]">>, <<"{", "}">>, <<"x", "\n", "x">> }
ServiceErrors == { NonError }

ServiceInit ==
    /\ apiKey \in {"", "key"}
    /\ genAI = "null"
    /\ plan = IdlePlan
    /\ rec = IdleRec
    /\ ext = IdleExt
    /\ mock = IdleMock
    /\ dur = IdleDur
    /\ constructed = 0
    /\ names = IdleNames
    /\ wiz = IdleWiz
    /\ tab = IdleTab
    /\ rat = IdleRat
    /\ tg = IdleTags
    /\ sch = IdleSchedule
    /\ cat = IdleCategories

ServiceNext ==
    \/ \E travelData \in ServiceTravelDatas : generateTravelPlan(travelData)
    \/ \E text \in ServiceTexts : PlanModelResponds(text)
    \/ \E error \in ServiceErrors : PlanModelThrows(error)
    \/ PlanReturn
    \/ \E prefs \in ServicePrefs : generateRecommendations(prefs)
    \/ \E text \in ServiceTexts : RecModelResponds(text)
    \/ \E error \in ServiceErrors : RecModelThrows(error)
    \/ RecReturn
    \/ \E i \in 1..MaxNames : extractNamesFromImage(i)
    \/ \E i \in 1..MaxNames, text \in ServiceTexts : NamesModelResponds(i, text)
    \/ \E i \in 1..MaxNames, error \in ServiceErrors : NamesModelThrows(i, error)
    \/ \E i \in 1..MaxNames : NamesReturn(i)

SpecService == ServiceInit /\ [][ServiceNext]_vars

-----------------------------------------------------------------------------
(* The steps of the wizard: TravelCreator (part_002), AIGenerationStep      *)
(* (AIGenerationStep.tsx) and the review step (TravelForm.tsx lines         *)
(* 358-521). A state update of a component that is no longer mounted has no *)
(* effect.                                                                  *)

\* steps.length - 1
LastStep == 4

\* the delays of the two setTimeout calls of generatePlan
PlanDelay == 500
ErrorDelay == 2000

\* the travelData prop AIGenerationStep is given, part_002 lines 140-148
TravelDataOf(formData) ==
    [destination |-> formData.destination, startDate |-> formData.startDate,
     endDate |-> formData.endDate, memberCount |-> formData.memberCount,
     budget |-> formData.budget]

\* generatePlan up to its await, lines 37-53, on the mounted step of w
StartAttempt(w) ==
    LET a == w.attempts + 1
    IN  [w EXCEPT !.attempts = a,
                  !.inst = [@ EXCEPT !.isGenerating = TRUE, !.error = Null,
                                     !.intervals = @ \cup {a}],
                  !.requests = @ \cup { [attempt |-> a, inst |-> w.inst.id,
                                         travelData |-> TravelDataOf(w.formData)] }]

\* the AIGenerationStep that made request r is still mounted
Mounted(w, r) == w.inst.mounted /\ w.inst.id = r.inst

\* response.error || 'AI plan generation failed'
ErrorOrDefault(error) ==
    IF error = Null \/ error = "" THEN "AI plan generation failed" ELSE error

\* generatePlan after its await, lines 55-68 and 75-77: request r was answered
AfterResponse(w, r, response) ==
    LET timer == IF response.success
                 THEN [attempt |-> r.attempt, kind |-> "onPlanGenerated",
                       arg |-> response.plan, delay |-> PlanDelay]
                 ELSE [attempt |-> r.attempt, kind |-> "onError",
                       arg |-> ErrorOrDefault(response.error),
                       delay |-> ErrorDelay]
    IN  [w EXCEPT !.requests = @ \ {r},
                  !.timers = Append(@, timer),
                  !.inst = IF Mounted(w, r)
                           THEN [@ EXCEPT !.intervals = @ \ {r.attempt},
                                          !.currentStep = LastStep,
                                          !.error = IF response.success THEN @
                                                    ELSE timer.arg,
                                          !.isGenerating = FALSE]
                           ELSE @]

\* the catch and finally blocks of generatePlan, lines 69-77: request r threw
\* (the interval of line 42 is not cleared on this path)
AfterThrow(w, r) ==
    [w EXCEPT !.requests = @ \ {r},
              !.timers = Append(@, [attempt |-> r.attempt, kind |-> "onError",
                                    arg |-> "network error",
                                    delay |-> ErrorDelay]),
              !.inst = IF Mounted(w, r)
                       THEN [@ EXCEPT !.error = "network error",
                                      !.isGenerating = FALSE]
                       ELSE @]

\* handlePlanGenerated, part_002 lines 64-67; AIGenerationStep is rendered
\* only in the step ai-generation
handlePlanGenerated(w, generated) ==
    [w EXCEPT !.generatedPlan = generated, !.step = "review", !.inst = NoInst]

\* handlePlanError, part_002 lines 72-75
handlePlanError(w, errorMessage) ==
    [w EXCEPT !.error = errorMessage, !.step = "form", !.inst = NoInst]

\* the timer at position i is due before every timer set earlier that is
\* still pending: only a timer with a longer delay can be overtaken
CanFire(timers, i) == \A j \in 1..(i - 1) : timers[j].delay > timers[i].delay

RemoveAt(s, i) == SubSeq(s, 1, i - 1) \o SubSeq(s, i + 1, Len(s))

\* what travelApi.generatePlan resolves with
WizResponses ==
    { [success |-> TRUE, plan |-> "plan", error |-> Null],
      [success |-> TRUE, plan |-> Null, error |-> Null],
      [success |-> FALSE, plan |-> "mock plan", error |-> "backend error"],
      [success |-> FALSE, plan |-> "mock plan", error |-> Null] }

\* the user edits the form: handleInputChange, TravelForm.tsx lines 49-54
handleInputChange(formData) ==
    /\ wiz.open
    /\ wiz.step = "form"
    /\ formData # wiz.formData
    /\ wiz' = [wiz EXCEPT !.formData = formData]
    /\ UNCHANGED <<apiKey, genAI, plan, rec, ext, mock, dur, constructed, names,
                   tab, rat, tg, sch, cat>>

\* the user clicks the form's button, enabled when the form is valid:
\* generateWithAI (part_002 lines 56-59), then AIGenerationStep is mounted and
\* its effect calls generatePlan (lines 20-22 and 32-34)
generateWithAI ==
    /\ wiz.open
    /\ wiz.step = "form"
    /\ isFormValid(wiz.formData, wiz.today, wiz.tz)
    /\ wiz.attempts < MaxAttempts
    /\ wiz' = StartAttempt(
                [wiz EXCEPT !.error = Null, !.step = "ai-generation",
                            !.mounts = @ + 1,
                            !.inst = [mounted |-> TRUE, id |-> wiz.mounts + 1,
                                      isGenerating |-> TRUE, currentStep |-> 0,
                                      error |-> Null, intervals |-> {}]])
    /\ UNCHANGED <<apiKey, genAI, plan, rec, ext, mock, dur, constructed, names,
                   tab, rat, tg, sch, cat>>

\* the user clicks the retry button of the error screen: handleRetry, lines
\* 80-84 and 86-110
handleRetry ==
    /\ wiz.open
    /\ wiz.inst.mounted
    /\ wiz.inst.error # Null
    /\ wiz.attempts < MaxAttempts
    /\ wiz' = StartAttempt([wiz EXCEPT !.inst.currentStep = 0,
                                       !.inst.error = Null])
    /\ UNCHANGED <<apiKey, genAI, plan, rec, ext, mock, dur, constructed, names,
                   tab, rat, tg, sch, cat>>

\* the interval of attempt a ticks, lines 42-50
StepTick(a) ==
    /\ wiz.open
    /\ wiz.inst.mounted
    /\ a \in wiz.inst.intervals
    /\ wiz' = IF wiz.inst.currentStep < LastStep
              THEN [wiz EXCEPT !.inst.currentStep = @ + 1]
              ELSE [wiz EXCEPT !.inst.intervals = @ \ {a}]
    /\ UNCHANGED <<apiKey, genAI, plan, rec, ext, mock, dur, constructed, names,
                   tab, rat, tg, sch, cat>>

\* travelApi.generatePlan resolves for request r
GenerateResolves(r, response) ==
    /\ wiz.open
    /\ r \in wiz.requests
    /\ wiz' = AfterResponse(wiz, r, response)
    /\ UNCHANGED <<apiKey, genAI, plan, rec, ext, mock, dur, constructed, names,
                   tab, rat, tg, sch, cat>>

\* travelApi.generatePlan rejects for request r
GenerateRejects(r) ==
    /\ wiz.open
    /\ r \in wiz.requests
    /\ wiz' = AfterThrow(wiz, r)
    /\ UNCHANGED <<apiKey, genAI, plan, rec, ext, mock, dur, constructed, names,
                   tab, rat, tg, sch, cat>>

\* the pending timer at position i fires: lines 60-62, 65-67 and 72-74
TimerFires(i) ==
    /\ wiz.open
    /\ i \in 1..Len(wiz.timers)
    /\ CanFire(wiz.timers, i)
    /\ LET timer == wiz.timers[i]
           rest  == [wiz EXCEPT !.timers = RemoveAt(@, i)]
       IN  wiz' = IF timer.kind = "onPlanGenerated"
                  THEN handlePlanGenerated(rest, timer.arg)
                  ELSE handlePlanError(rest, timer.arg)
    /\ UNCHANGED <<apiKey, genAI, plan, rec, ext, mock, dur, constructed, names,
                   tab, rat, tg, sch, cat>>

\* the user clicks the button of the review step, rendered when there is a
\* plan: createTravel up to its await, part_002 lines 80-104
createTravel ==
    /\ wiz.open
    /\ wiz.step = "review"
    /\ wiz.generatedPlan # Null
    /\ wiz.created < MaxCreates
    /\ wiz' = [wiz EXCEPT !.error = Null, !.creating = @ + 1,
                          !.created = @ + 1]
    /\ UNCHANGED <<apiKey, genAI, plan, rec, ext, mock, dur, constructed, names,
                   tab, rat, tg, sch, cat>>

\* travelApi.create resolves: onComplete, line 105; App leaves the creator
CreateResolves ==
    /\ wiz.open
    /\ wiz.creating > 0
    /\ wiz' = [wiz EXCEPT !.creating = @ - 1, !.open = FALSE]
    /\ UNCHANGED <<apiKey, genAI, plan, rec, ext, mock, dur, constructed, names,
                   tab, rat, tg, sch, cat>>

\* travelApi.create rejects: the catch block, lines 106-109
CreateRejects ==
    /\ wiz.open
    /\ wiz.creating > 0
    /\ wiz' = [wiz EXCEPT !.creating = @ - 1, !.error = "create failed"]
    /\ UNCHANGED <<apiKey, genAI, plan, rec, ext, mock, dur, constructed, names,
                   tab, rat, tg, sch, cat>>

\* the user clicks the back button of the form step; App leaves the creator
onBack ==
    /\ wiz.open
    /\ wiz.step = "form"
    /\ wiz' = [wiz EXCEPT !.open = FALSE]
    /\ UNCHANGED <<apiKey, genAI, plan, rec, ext, mock, dur, constructed, names,
                   tab, rat, tg, sch, cat>>

WizInit ==
    /\ apiKey = "key"
    /\ genAI = "null"
    /\ plan = IdlePlan
    /\ rec = IdleRec
    /\ ext = IdleExt
    /\ mock = IdleMock
    /\ dur = IdleDur
    /\ constructed = 0
    /\ names = IdleNames
    /\ wiz \in { [IdleWiz EXCEPT !.tz = tz] : tz \in TimeZones }
    /\ tab = IdleTab
    /\ rat = IdleRat
    /\ tg = IdleTags
    /\ sch = IdleSchedule
    /\ cat = IdleCategories

WizNext ==
    \/ \E formData \in WizFormDatas : handleInputChange(formData)
    \/ generateWithAI
    \/ handleRetry
    \/ \E a \in 1..MaxAttempts : StepTick(a)
    \/ \E r \in wiz.requests, response \in WizResponses :
         GenerateResolves(r, response)
    \/ \E r \in wiz.requests : GenerateRejects(r)
    \/ \E i \in 1..MaxAttempts : TimerFires(i)
    \/ createTravel
    \/ CreateResolves
    \/ CreateRejects
    \/ onBack

SpecWizard == WizInit /\ [][WizNext]_vars

-----------------------------------------------------------------------------
(* The AI recommendations tab: AIRecommendationsTab (BudgetOverview.tsx     *)
(* lines 693-753 and 773-809).                                              *)

\* 'AI推薦の生成に失敗しました', lines 708 and 711
TabDefaultMessage == "AI recommendation failed"

Falsy(v) == v = Null \/ v = ""

\* res.recommendations.map((rec, idx) => ({...rec, id: rec.id || String(idx + 1)}))
WithIds(recs) ==
    [i \in 1..Len(recs) |->
       [recs[i] EXCEPT !.id = IF Falsy(@) THEN ToString(i) ELSE @]]

\* res.message || res.error || the default message, line 708
TabMessage(res) ==
    IF ~Falsy(res.message) THEN res.message
    ELSE IF ~Falsy(res.error) THEN res.error
    ELSE TabDefaultMessage

\* the finally block, lines 712-714
TabFinally(t) == [t EXCEPT !.isGenerating = FALSE, !.pending = FALSE]

\* the failure handler that leaves the list as it is
TabFailedKeeping(t, message) == TabFinally([t EXCEPT !.alert = message])

\* setRecommendations([]); alert(message), lines 707-708 and 710-711, and
\* the finally block
TabFailed(t, message) ==
    TabFinally([t EXCEPT !.recommendations = <<>>, !.alert = message])

\* the try block after the await, lines 704-709, and the finally block
TabAfterResponse(t, res) ==
    IF res.success
    THEN TabFinally([t EXCEPT !.recommendations =
                                 WithIds(res.recommendations)])
    ELSE TabFailed(t, TabMessage(res))

\* recommendations.map(rec => rec.id === id ? {...rec, isBookmarked:
\* !rec.isBookmarked} : rec), lines 723-725
Toggled(recs, id) ==
    [i \in 1..Len(recs) |->
       IF recs[i].id = id
       THEN [recs[i] EXCEPT !.isBookmarked = ~@]
       ELSE recs[i]]

TabRec(id, name) == [id |-> id, name |-> name, isBookmarked |-> FALSE]

\* what aiApi.generateRecommendations resolves with
TabResponses ==
    { [success |-> TRUE, message |-> Null, error |-> Null,
       recommendations |-> recs] :
         recs \in { <<>>, <<TabRec(Null, "temple")>>,
                    <<TabRec("2", "temple"), TabRec(Null, "garden")>>,
                    <<TabRec("a", "temple"), TabRec("", "garden")>> } }
    \cup
    { [success |-> FALSE, recommendations |-> <<>>, message |-> m,
       error |-> e] : m \in {Null, "message"}, e \in {Null, "error"} }

\* the user clicks the generate button, enabled when isGenerating is false:
\* generateRecommendations up to its await, lines 700-704
TabGenerate ==
    /\ ~tab.isGenerating
    /\ tab.requests < MaxRequests
    /\ tab' = [tab EXCEPT !.isGenerating = TRUE, !.pending = TRUE,
                          !.alert = Null, !.requests = @ + 1]
    /\ UNCHANGED <<apiKey, genAI, plan, rec, ext, mock, dur, constructed, names,
                   wiz, rat, tg, sch, cat>>

\* aiApi.generateRecommendations resolves: lines 704-709 and 712-714
TabResolves(res) ==
    /\ tab.pending
    /\ tab' = [TabAfterResponse(tab, res) EXCEPT !.res = res,
                                                 !.rejected = FALSE]
    /\ UNCHANGED <<apiKey, genAI, plan, rec, ext, mock, dur, constructed, names,
                   wiz, rat, tg, sch, cat>>

\* aiApi.generateRecommendations rejects: lines 710-714
TabRejects ==
    /\ tab.pending
    /\ tab' = [TabFailed(tab, TabDefaultMessage) EXCEPT !.rejected = TRUE]
    /\ UNCHANGED <<apiKey, genAI, plan, rec, ext, mock, dur, constructed, names,
                   wiz, rat, tg, sch, cat>>

\* the user clicks the bookmark of the card at position i: toggleBookmark,
\* lines 722-726
toggleBookmark(i) ==
    /\ i \in 1..Len(tab.recommendations)
    /\ tab' = [tab EXCEPT !.recommendations =
                            Toggled(@, tab.recommendations[i].id)]
    /\ UNCHANGED <<apiKey, genAI, plan, rec, ext, mock, dur, constructed, names,
                   wiz, rat, tg, sch, cat>>

\* the user adds the card at position i to the places: addToPlaces, lines
\* 731-753
addToPlaces(i) ==
    /\ i \in 1..Len(tab.recommendations)
    /\ Len(tab.places) < MaxPlaces
    /\ tab' = [tab EXCEPT !.places = Append(@, tab.recommendations[i].name),
                          !.recommendations =
                            Toggled(@, tab.recommendations[i].id)]
    /\ UNCHANGED <<apiKey, genAI, plan, rec, ext, mock, dur, constructed, names,
                   wiz, rat, tg, sch, cat>>

TabInit ==
    /\ apiKey = "key"
    /\ genAI = "null"
    /\ plan = IdlePlan
    /\ rec = IdleRec
    /\ ext = IdleExt
    /\ mock = IdleMock
    /\ dur = IdleDur
    /\ constructed = 0
    /\ names = IdleNames
    /\ wiz = IdleWiz
    /\ tab = IdleTab
    /\ rat = IdleRat
    /\ tg = IdleTags
    /\ sch = IdleSchedule
    /\ cat = IdleCategories

TabNext ==
    \/ TabGenerate
    \/ \E res \in TabResponses : TabResolves(res)
    \/ TabRejects
    \/ \E i \in 1..MaxRecs : toggleBookmark(i)
    \/ \E i \in 1..MaxRecs : addToPlaces(i)

SpecTab == TabInit /\ [][TabNext]_vars

-----------------------------------------------------------------------------
(* The room-assignment tab: RoomAssignmentTab (part_007 lines 171-420 and   *)
(* 485-492).                                                                *)

\* the effect of lines 171-218 for a stay of the given number of nights: one
\* day per night, each copying the (empty) assignment of the day before
DaysOfStay(nights) == [d \in 1..nights |-> NoAssignments]

\* getConsecutiveStayInfo()?.isConsecutive, lines 221-248
IsConsecutive(travelInfo) == travelInfo.given /\ travelInfo.nights > 1

\* currentAssignments, lines 268-269, of the state t
CurrentAssignments(t) ==
    IF t.currentDayIndex + 1 \in 1..Len(t.dayAssignments)
    THEN t.dayAssignments[t.currentDayIndex + 1]
    ELSE NoAssignments

\* Object.values(assignments).flat(), as a set
AssignedMemberIds(assignments) ==
    UNION { { assignments[r][i] : i \in 1..Len(assignments[r]) } :
            r \in RoomIds }

\* getUnassignedMembers, lines 274-277
getUnassignedMembers(t) ==
    LET unassigned(m) == m \notin AssignedMemberIds(CurrentAssignments(t))
    IN  SelectSeq(t.members, unassigned)

\* rooms.filter(room => room.isAvailable)
AvailableRooms(t) ==
    LET available(r) == r.isAvailable
    IN  SelectSeq(t.rooms, available)

\* the loop of autoAssignRooms, lines 405-412: each room in order takes the
\* next unassigned members up to its remaining capacity
RECURSIVE FillRooms(_, _, _)
FillRooms(rooms, assignments, unassigned) ==
    IF rooms = <<>> THEN assignments
    ELSE LET room == Head(rooms)
             remainingCapacity == room.capacity - Len(assignments[room.id])
             k == Min({Max({remainingCapacity, 0}), Len(unassigned)})
         IN  FillRooms(Tail(rooms),
                       [assignments EXCEPT
                          ![room.id] = @ \o SubSeq(unassigned, 1, k)],
                       SubSeq(unassigned, k + 1, Len(unassigned)))

\* dayAssignments.map((day, index) => index === dayIndex ? {...day,
\* roomAssignments} : day)
WithDay(dayAssignments, dayIndex, roomAssignments) ==
    [d \in 1..Len(dayAssignments) |->
       IF d = dayIndex + 1 THEN roomAssignments ELSE dayAssignments[d]]

\* the dayAssignments autoAssignRooms sets, lines 395-420
autoAssignRooms(t) ==
    WithDay(t.dayAssignments, t.currentDayIndex,
            FillRooms(AvailableRooms(t), CurrentAssignments(t),
                      getUnassignedMembers(t)))

\* the dayAssignments the delayed callback of autoAssignAllDays sets, lines
\* 378-387, from the dayAssignments it closed over: the first day as it is,
\* every other day with the first day's assignment
CopyFirstDay(dayAssignments) ==
    [d \in 1..Len(dayAssignments) |->
       IF d = 1 THEN dayAssignments[d] ELSE dayAssignments[1]]

\* the assignments as they are, the member left where it is
WithMember(assignments, memberId) == assignments

\* the member is removed from every room, lines 306-309
WithoutMember(assignments, memberId) ==
    [r \in RoomIds |->
       LET other(id) == id # memberId IN SelectSeq(assignments[r], other)]

\* the capacity of the room with this id
CapacityOf(t, roomId) ==
    LET i == CHOOSE i \in 1..Len(t.rooms) : t.rooms[i].id = roomId
    IN  t.rooms[i].capacity

\* the user goes to the previous day, line 578
PreviousDay ==
    /\ rat.currentDayIndex # 0
    /\ rat' = [rat EXCEPT !.currentDayIndex = Max({0, @ - 1})]
    /\ UNCHANGED <<apiKey, genAI, plan, rec, ext, mock, dur, constructed, names,
                   wiz, tab, tg, sch, cat>>

\* the user goes to the next day, line 615
NextDay ==
    /\ rat.currentDayIndex # Len(rat.dayAssignments) - 1
    /\ rat' = [rat EXCEPT !.currentDayIndex =
                            Min({Len(rat.dayAssignments) - 1, @ + 1})]
    /\ UNCHANGED <<apiKey, genAI, plan, rec, ext, mock, dur, constructed, names,
                   wiz, tab, tg, sch, cat>>

\* assignMemberToRoom, lines 300-322
assignMemberToRoom(memberId, roomId) ==
    /\ rat.edits < MaxEdits
    /\ \E i \in 1..Len(rat.rooms) : rat.rooms[i].id = roomId
    /\ Len(CurrentAssignments(rat)[roomId]) < CapacityOf(rat, roomId)
    /\ rat' = [rat EXCEPT
                 !.edits = @ + 1,
                 !.dayAssignments =
                    WithDay(@, rat.currentDayIndex,
                            [WithoutMember(CurrentAssignments(rat), memberId)
                               EXCEPT ![roomId] = Append(@, memberId)])]
    /\ UNCHANGED <<apiKey, genAI, plan, rec, ext, mock, dur, constructed, names,
                   wiz, tab, tg, sch, cat>>

\* removeMemberFromRoom, lines 327-337, from the card of a room the member
\* is in
removeMemberFromRoom(memberId, roomId) ==
    /\ rat.edits < MaxEdits
    /\ \E i \in 1..Len(CurrentAssignments(rat)[roomId]) :
         CurrentAssignments(rat)[roomId][i] = memberId
    /\ rat' = [rat EXCEPT
                 !.edits = @ + 1,
                 !.dayAssignments =
                    WithDay(@, rat.currentDayIndex,
                            [CurrentAssignments(rat) EXCEPT
                               ![roomId] = WithoutMember(CurrentAssignments(rat),
                                                         memberId)[roomId]])]
    /\ UNCHANGED <<apiKey, genAI, plan, rec, ext, mock, dur, constructed, names,
                   wiz, tab, tg, sch, cat>>

\* copyFromPreviousDay, lines 342-352
copyFromPreviousDay ==
    /\ rat.edits < MaxEdits
    /\ rat.currentDayIndex > 0
    /\ rat' = [rat EXCEPT
                 !.edits = @ + 1,
                 !.dayAssignments =
                    WithDay(@, rat.currentDayIndex,
                            rat.dayAssignments[rat.currentDayIndex])]
    /\ UNCHANGED <<apiKey, genAI, plan, rec, ext, mock, dur, constructed, names,
                   wiz, tab, tg, sch, cat>>

\* resetAllAssignments, lines 485-492; its button is enabled when the day
\* has an assigned member
resetAllAssignments ==
    /\ rat.edits < MaxEdits
    /\ AssignedMemberIds(CurrentAssignments(rat)) # {}
    /\ rat' = [rat EXCEPT
                 !.edits = @ + 1,
                 !.dayAssignments =
                    WithDay(@, rat.currentDayIndex, NoAssignments)]
    /\ UNCHANGED <<apiKey, genAI, plan, rec, ext, mock, dur, constructed, names,
                   wiz, tab, tg, sch, cat>>

\* autoAssignAllDays, lines 366-390: autoAssignRooms, and for a stay of
\* several nights the timer whose callback closes over the dayAssignments of
\* this render
autoAssignAllDays ==
    /\ rat.autos < MaxAutos
    /\ getUnassignedMembers(rat) # <<>>
    /\ AvailableRooms(rat) # <<>>
    /\ rat' = [rat EXCEPT
                 !.autos = @ + 1,
                 !.dayAssignments = autoAssignRooms(rat),
                 !.timers =
                    IF IsConsecutive(rat.travelInfo)
                       /\ Len(rat.dayAssignments) > 1
                    THEN Append(@, [dayAssignments |-> rat.dayAssignments,
                                    currentDayIndex |-> rat.currentDayIndex])
                    ELSE @]
    /\ UNCHANGED <<apiKey, genAI, plan, rec, ext, mock, dur, constructed, names,
                   wiz, tab, tg, sch, cat>>

\* the timer of autoAssignAllDays fires, lines 378-388; the timers have the
\* same delay, so the oldest fires first
CopyTimerFires ==
    /\ rat.timers # <<>>
    /\ rat' = [rat EXCEPT
                 !.dayAssignments = CopyFirstDay(Head(rat.timers).dayAssignments),
                 !.timers = Tail(@)]
    /\ UNCHANGED <<apiKey, genAI, plan, rec, ext, mock, dur, constructed, names,
                   wiz, tab, tg, sch, cat>>

\* the capacities the room form offers, part_006 lines 365-370
RoomCapacities == 1..6

\* the user saves the form of a room with another capacity: editRoom, lines
\* 458-461, with the room the form submits, part_006 lines 170-183
editRoom(roomId, capacity) ==
    /\ rat.edits < MaxEdits
    /\ \E i \in 1..Len(rat.rooms) :
         rat.rooms[i].id = roomId /\ rat.rooms[i].capacity # capacity
    /\ rat' = [rat EXCEPT
                 !.edits = @ + 1,
                 !.rooms = [i \in 1..Len(@) |->
                              IF @[i].id = roomId
                              THEN [@[i] EXCEPT !.capacity = capacity]
                              ELSE @[i]]]
    /\ UNCHANGED <<apiKey, genAI, plan, rec, ext, mock, dur, constructed, names,
                   wiz, tab, tg, sch, cat>>

\* deleteRoom, lines 466-480: a room without an entry in the assignment of a
\* day has no members on that day
deleteRoom(roomId) ==
    /\ rat.edits < MaxEdits
    /\ \E i \in 1..Len(rat.rooms) : rat.rooms[i].id = roomId
    /\ rat' = [rat EXCEPT
                 !.edits = @ + 1,
                 !.rooms = LET other(r) == r.id # roomId
                           IN  SelectSeq(@, other),
                 !.dayAssignments =
                    [d \in 1..Len(@) |-> [@[d] EXCEPT ![roomId] = <<>>]]]
    /\ UNCHANGED <<apiKey, genAI, plan, rec, ext, mock, dur, constructed, names,
                   wiz, tab, tg, sch, cat>>

\* the tab after its first effect: without travelInfo the days of lines
\* 126-151, else one day per night of the stay
RatInit ==
    /\ apiKey = "key"
    /\ genAI = "null"
    /\ plan = IdlePlan
    /\ rec = IdleRec
    /\ ext = IdleExt
    /\ mock = IdleMock
    /\ dur = IdleDur
    /\ constructed = 0
    /\ names = IdleNames
    /\ wiz = IdleWiz
    /\ tab = IdleTab
    /\ rat \in {IdleRat} \cup
               { [IdleRat EXCEPT
                    !.travelInfo = [given |-> TRUE, nights |-> nights],
                    !.dayAssignments = DaysOfStay(nights)] :
                 nights \in 1..MaxNights }
    /\ tg = IdleTags
    /\ sch = IdleSchedule
    /\ cat = IdleCategories

RatNext ==
    \/ PreviousDay
    \/ NextDay
    \/ \E i \in 1..Len(rat.members), r \in RoomIds :
         assignMemberToRoom(rat.members[i], r)
    \/ \E i \in 1..Len(rat.members), r \in RoomIds :
         removeMemberFromRoom(rat.members[i], r)
    \/ copyFromPreviousDay
    \/ resetAllAssignments
    \/ autoAssignAllDays
    \/ CopyTimerFires
    \/ \E r \in RoomIds, capacity \in RoomCapacities : editRoom(r, capacity)
    \/ \E r \in RoomIds : deleteRoom(r)

SpecRooms == RatInit /\ [][RatNext]_vars

-----------------------------------------------------------------------------
(* The edit mode of the members and the tag management (part_007 lines      *)
(* 502-558 and 849-945).                                                    *)

\* array.includes(x)
Has(array, x) == \E i \in 1..Len(array) : array[i] = x

\* members.some(member => member.preferences.includes(tag)), lines 551 and 893
IsTagInUse(members, tag) == \E i \in 1..Len(members) : tag \in members[i]

\* prev.filter(tag => tag !== tagToRemove), line 557
WithoutTag(tags, tagToRemove) ==
    LET other(tag) == tag # tagToRemove IN SelectSeq(tags, other)

\* what the user types into the tag input
TagInputs == { <<"x">>, <<" ", "x">>, <<" ">>, <<>>, <<"w">> }

\* startEditMode, lines 503-507
startEditMode ==
    /\ ~tg.editMode
    /\ tg.sessions < MaxSessions
    /\ tg' = [tg EXCEPT !.editMode = TRUE, !.bulkEditMembers = tg.members,
                        !.sessions = @ + 1]
    /\ UNCHANGED <<apiKey, genAI, plan, rec, ext, mock, dur, constructed, names,
                   wiz, tab, rat, sch, cat>>

\* cancelEditMode, lines 510-514
cancelEditMode ==
    /\ tg.editMode
    /\ tg' = [tg EXCEPT !.editMode = FALSE, !.bulkEditMembers = <<>>]
    /\ UNCHANGED <<apiKey, genAI, plan, rec, ext, mock, dur, constructed, names,
                   wiz, tab, rat, sch, cat>>

\* saveBulkEdit, lines 517-521
saveBulkEdit ==
    /\ tg.editMode
    /\ tg' = [tg EXCEPT !.members = tg.bulkEditMembers, !.editMode = FALSE]
    /\ UNCHANGED <<apiKey, genAI, plan, rec, ext, mock, dur, constructed, names,
                   wiz, tab, rat, sch, cat>>

\* the user ticks or unticks the checkbox of an available tag of the member
\* at position i: lines 932-940 and updateBulkEditMember, lines 535-537
updateBulkEditMember(i, tag) ==
    /\ tg.editMode
    /\ tg.updates < MaxTagUpdates
    /\ i \in 1..Len(tg.bulkEditMembers)
    /\ Has(tg.availableTags, tag)
    /\ tg' = [tg EXCEPT !.updates = @ + 1,
                        !.bulkEditMembers[i] =
                           IF tag \in @ THEN @ \ {tag} ELSE @ \cup {tag}]
    /\ UNCHANGED <<apiKey, genAI, plan, rec, ext, mock, dur, constructed, names,
                   wiz, tab, rat, sch, cat>>

\* addTag, lines 540-546, with the text of the tag input
addTag(newTagInput) ==
    /\ tg.editMode
    /\ tg.adds < MaxTagAdds
    /\ Trim(newTagInput) # <<>>
    /\ ~Has(tg.availableTags, Trim(newTagInput))
    /\ tg' = [tg EXCEPT !.adds = @ + 1,
                        !.availableTags = Append(@, Trim(newTagInput))]
    /\ UNCHANGED <<apiKey, genAI, plan, rec, ext, mock, dur, constructed, names,
                   wiz, tab, rat, sch, cat>>

\* removeTag, lines 549-558; its button is shown in the edit mode for the
\* tags that are not in use, lines 892-906
removeTag(tagToRemove) ==
    /\ tg.editMode
    /\ Has(tg.availableTags, tagToRemove)
    /\ ~IsTagInUse(tg.members, tagToRemove)
    /\ tg' = [tg EXCEPT !.availableTags = WithoutTag(@, tagToRemove)]
    /\ UNCHANGED <<apiKey, genAI, plan, rec, ext, mock, dur, constructed, names,
                   wiz, tab, rat, sch, cat>>

TagsInit ==
    /\ apiKey = "key"
    /\ genAI = "null"
    /\ plan = IdlePlan
    /\ rec = IdleRec
    /\ ext = IdleExt
    /\ mock = IdleMock
    /\ dur = IdleDur
    /\ constructed = 0
    /\ names = IdleNames
    /\ wiz = IdleWiz
    /\ tab = IdleTab
    /\ rat = IdleRat
    /\ tg = IdleTags
    /\ sch = IdleSchedule
    /\ cat = IdleCategories

TagsNext ==
    \/ startEditMode
    \/ cancelEditMode
    \/ saveBulkEdit
    \/ \E i \in 1..Len(InitialPreferences), t \in 1..Len(tg.availableTags) :
         updateBulkEditMember(i, tg.availableTags[t])
    \/ \E newTagInput \in TagInputs : addTag(newTagInput)
    \/ \E t \in 1..Len(tg.availableTags) : removeTag(tg.availableTags[t])

SpecTags == TagsInit /\ [][TagsNext]_vars

-----------------------------------------------------------------------------
(* The schedule tab: ScheduleTab (schedule/index.tsx lines 110-292) and the *)
(* item form (ScheduleItem.tsx lines 236-250 and 263-268).                  *)

\* the place of a character in the collation localeCompare uses: the
\* punctuation before the digits
CollationRank(c) ==
    IF c = ":" THEN 0
    ELSE CHOOSE n \in 1..10 : <<"0", "1", "2", "3", "4", "5", "6", "7", "8",
                                "9">>[n] = c

\* a.localeCompare(b) on texts of digits and colons
RECURSIVE localeCompare(_, _)
localeCompare(a, b) ==
    IF a = <<>> /\ b = <<>> THEN 0
    ELSE IF a = <<>> THEN -1
    ELSE IF b = <<>> THEN 1
    ELSE IF CollationRank(Head(a)) < CollationRank(Head(b)) THEN -1
    ELSE IF CollationRank(Head(a)) > CollationRank(Head(b)) THEN 1
    ELSE localeCompare(Tail(a), Tail(b))

\* the comparator of lines 215-221 and 239-245
CompareItems(a, b) ==
    IF a.time = <<>> /\ b.time = <<>> THEN 0
    ELSE IF a.time = <<>> THEN 1
    ELSE IF b.time = <<>> THEN -1
    ELSE localeCompare(a.time, b.time)

\* the item put into the sorted items behind the last one that is not
\* greater
RECURSIVE InsertItem(_, _)
InsertItem(sorted, item) ==
    IF sorted = <<>> THEN <<item>>
    ELSE IF CompareItems(sorted[Len(sorted)], item) <= 0
    THEN Append(sorted, item)
    ELSE Append(InsertItem(SubSeq(sorted, 1, Len(sorted) - 1), item),
                sorted[Len(sorted)])

\* Array.prototype.sort with the comparator: a stable sort
RECURSIVE SortItems(_)
SortItems(items) ==
    IF items = <<>> THEN <<>>
    ELSE InsertItem(SortItems(SubSeq(items, 1, Len(items) - 1)),
                    items[Len(items)])

\* prev.map((day, index) => index === dayIndex ? {...day, items} : day)
WithItems(schedule, dayIndex, items) ==
    [d \in 1..Len(schedule) |->
       IF d = dayIndex + 1 THEN items ELSE schedule[d]]

ScheduleItemOf(id, time) == [id |-> id, time |-> time]

\* the times <input type="time"> gives: "", "08:30", "10:00", "14:00"
FormTimes ==
    { <<>>, <<"0", "8", ":", "3", "0">>, <<"1", "0", ":", "0", "0">>,
      <<"1", "4", ":", "0", "0">> }

\* the schedules the effect of lines 113-146 sets: two days without items
\* (generateDaySchedules), the days of a generated plan with the times
\* "09:00" and "14:00" and an item without time, and the days of a generated
\* plan whose first time is written "9:00"
InitialSchedules ==
    { << <<>>, <<>> >>,
      << << ScheduleItemOf("0-0", <<"0", "9", ":", "0", "0">>),
            ScheduleItemOf("0-1", <<"1", "4", ":", "0", "0">>) >>,
         << ScheduleItemOf("1-0", <<>>) >> >>,
      << << ScheduleItemOf("0-0", <<"9", ":", "0", "0">>),
            ScheduleItemOf("0-1", <<"1", "4", ":", "0", "0">>) >>,
         <<>> >> }

\* handleAddItem, lines 161-164
handleAddItem(dayIndex) ==
    /\ sch.modal = "none"
    /\ sch.saves < MaxSaves
    /\ dayIndex + 1 \in 1..Len(sch.schedule)
    /\ sch' = [sch EXCEPT !.selectedDayIndex = dayIndex, !.modal = "add"]
    /\ UNCHANGED <<apiKey, genAI, plan, rec, ext, mock, dur, constructed, names,
                   wiz, tab, rat, tg, cat>>

\* handleEditItem, lines 169-173
handleEditItem(i, dayIndex) ==
    /\ sch.modal = "none"
    /\ sch.saves < MaxSaves
    /\ dayIndex + 1 \in 1..Len(sch.schedule)
    /\ i \in 1..Len(sch.schedule[dayIndex + 1])
    /\ sch' = [sch EXCEPT !.selectedDayIndex = dayIndex, !.modal = "edit",
                          !.editingItem = sch.schedule[dayIndex + 1][i]]
    /\ UNCHANGED <<apiKey, genAI, plan, rec, ext, mock, dur, constructed, names,
                   wiz, tab, rat, tg, cat>>

\* the form is saved with a new item (ScheduleItem.tsx lines 236-250):
\* saveNewItem, lines 211-226
saveNewItem(time) ==
    /\ sch.modal = "add"
    /\ sch.selectedDayIndex # -1
    /\ LET item == ScheduleItemOf(ToString(sch.nextId), time)
           day  == sch.schedule[sch.selectedDayIndex + 1]
       IN  sch' = [sch EXCEPT
                     !.schedule = WithItems(@, sch.selectedDayIndex,
                                            SortItems(Append(day, item))),
                     !.modal = "none", !.nextId = @ + 1, !.saves = @ + 1]
    /\ UNCHANGED <<apiKey, genAI, plan, rec, ext, mock, dur, constructed, names,
                   wiz, tab, rat, tg, cat>>

\* the form is saved with the item being edited: saveEditedItem, lines
\* 231-252
saveEditedItem(time) ==
    /\ sch.modal = "edit"
    /\ sch.selectedDayIndex # -1
    /\ LET item == ScheduleItemOf(sch.editingItem.id, time)
           day  == sch.schedule[sch.selectedDayIndex + 1]
       IN  sch' = [sch EXCEPT
                     !.schedule =
                        WithItems(@, sch.selectedDayIndex,
                                  SortItems([i \in 1..Len(day) |->
                                               IF day[i].id = item.id
                                               THEN item ELSE day[i]])),
                     !.modal = "none", !.editingItem = Null,
                     !.saves = @ + 1]
    /\ UNCHANGED <<apiKey, genAI, plan, rec, ext, mock, dur, constructed, names,
                   wiz, tab, rat, tg, cat>>

\* the user drags the item at position i of the day behind the next one:
\* handleReorderItems, lines 287-291
handleReorderItems(i, dayIndex) ==
    /\ sch.modal = "none"
    /\ sch.reorders < MaxReorders
    /\ dayIndex + 1 \in 1..Len(sch.schedule)
    /\ i + 1 \in 2..Len(sch.schedule[dayIndex + 1])
    /\ LET day == sch.schedule[dayIndex + 1]
       IN  sch' = [sch EXCEPT
                     !.schedule =
                        WithItems(@, dayIndex,
                                  [k \in 1..Len(day) |->
                                     IF k = i THEN day[i + 1]
                                     ELSE IF k = i + 1 THEN day[i]
                                     ELSE day[k]]),
                     !.reorders = @ + 1]
    /\ UNCHANGED <<apiKey, genAI, plan, rec, ext, mock, dur, constructed, names,
                   wiz, tab, rat, tg, cat>>

\* the tab after its first effect, lines 113-146
ScheduleInit ==
    /\ apiKey = "key"
    /\ genAI = "null"
    /\ plan = IdlePlan
    /\ rec = IdleRec
    /\ ext = IdleExt
    /\ mock = IdleMock
    /\ dur = IdleDur
    /\ constructed = 0
    /\ names = IdleNames
    /\ wiz = IdleWiz
    /\ tab = IdleTab
    /\ rat = IdleRat
    /\ tg = IdleTags
    /\ sch \in { [IdleSchedule EXCEPT !.schedule = schedule] :
                 schedule \in InitialSchedules }
    /\ cat = IdleCategories

ScheduleNext ==
    \/ \E dayIndex \in 0..1 : handleAddItem(dayIndex)
    \/ \E i \in 1..(2 + MaxSaves), dayIndex \in 0..1 :
         handleEditItem(i, dayIndex)
    \/ \E time \in FormTimes : saveNewItem(time)
    \/ \E time \in FormTimes : saveEditedItem(time)
    \/ \E i \in 1..(2 + MaxSaves), dayIndex \in 0..1 :
         handleReorderItems(i, dayIndex)

SpecSchedule == ScheduleInit /\ [][ScheduleNext]_vars

-----------------------------------------------------------------------------
(* The category lists of the budget tab (part_007 lines 1136-1275) and of   *)
(* the packing tab (BudgetOverview.tsx lines 294-430).                      *)

\* 'その他'
OtherCategory == <<"o">>

\* the categories of the budget tab, part_007 lines 1144-1146
BudgetCategories == << <<"t">>, <<"l">>, <<"f">>, <<"s">>, <<"p">>, <<"o">> >>

\* the categories of the packing tab, BudgetOverview.tsx lines 299-301
PackingCategories ==
    << <<"d">>, <<"c">>, <<"h">>, <<"a">>, <<"e">>, <<"o">> >>

\* an expense or a packing item: its id and its category
EntryOf(id, category) == [id |-> id, category |-> category]

\* the items with the prefix and the place in the template as their ids
TemplateItems(prefix, letters) ==
    [i \in 1..Len(letters) |-> EntryOf(prefix \o ToString(i), <<letters[i]>>)]

\* domesticTemplate, BudgetOverview.tsx lines 232-253
domesticTemplate ==
    TemplateItems("dom-", <<"d", "d", "c", "c", "c", "c", "c", "h", "h", "h",
                            "e", "e", "e", "e", "h", "h", "a", "a", "o",
                            "o">>)

\* internationalTemplate, BudgetOverview.tsx lines 258-288
internationalTemplate ==
    TemplateItems("int-", <<"d", "d", "d", "d", "d", "d", "d", "c", "c", "c",
                            "c", "c", "h", "h", "h", "e", "e", "e", "e", "e",
                            "h", "h", "h", "a", "a", "o", "o", "o", "o">>)

\* the category names of the model
CategoryNames ==
    { <<"t">>, <<"l">>, <<"f">>, <<"s">>, <<"p">>, <<"d">>, <<"c">>, <<"h">>,
      <<"a">>, <<"e">>, <<"o">>, <<"x">> }

\* what the user types into the category input
CategoryInputs == { <<"x">>, <<" ", "x">>, <<" ">>, <<>>, <<"o">> }

\* the form of an expense or of a packing item lets the user choose among
\* the categories it is given (part_007 lines 1440-1445 and 1458-1467,
\* BudgetOverview.tsx lines 531-536 and 549-558)
FormOffers(category) == Has(cat.categories, category)

\* expenses.map(expense => expense) without the move
NotMoved(entries, category) == entries

\* expenses.map(expense => expense.category === category
\*                            ? {...expense, category: 'その他'} : expense)
MovedToOther(entries, category) ==
    [i \in 1..Len(entries) |->
       IF entries[i].category = category
       THEN [entries[i] EXCEPT !.category = OtherCategory]
       ELSE entries[i]]

\* categories.filter(cat => cat !== category)
WithoutCategory(categories, category) ==
    LET other(c) == c # category IN SelectSeq(categories, other)

\* items.map(i => i.id === item.id ? item : i)
WithEntry(entries, entry) ==
    [i \in 1..Len(entries) |->
       IF entries[i].id = entry.id THEN entry ELSE entries[i]]

\* the form of a new expense is saved: saveNewExpense, part_007 lines
\* 1236-1239
saveNewExpense(category) ==
    /\ cat.shown = "budget"
    /\ cat.saves < MaxEntrySaves
    /\ FormOffers(category)
    /\ cat' = [cat EXCEPT
                 !.entries = Append(@, EntryOf(ToString(cat.nextId), category)),
                 !.nextId = @ + 1, !.saves = @ + 1]
    /\ UNCHANGED <<apiKey, genAI, plan, rec, ext, mock, dur, constructed, names,
                   wiz, tab, rat, tg, sch>>

\* the form of the expense at position i is saved: saveEditedExpense,
\* part_007 lines 1244-1248
saveEditedExpense(i, category) ==
    /\ cat.shown = "budget"
    /\ cat.saves < MaxEntrySaves
    /\ i \in 1..Len(cat.entries)
    /\ FormOffers(category)
    /\ cat' = [cat EXCEPT
                 !.entries = WithEntry(@, EntryOf(cat.entries[i].id, category)),
                 !.saves = @ + 1]
    /\ UNCHANGED <<apiKey, genAI, plan, rec, ext, mock, dur, constructed, names,
                   wiz, tab, rat, tg, sch>>

\* addCategory of the budget tab, part_007 lines 1256-1262; the button is
\* disabled unless the condition holds, line 1492
addCategory(newCategory) ==
    /\ cat.shown = "budget"
    /\ cat.adds < MaxCategoryAdds
    /\ Trim(newCategory) # <<>>
    /\ ~Has(cat.categories, Trim(newCategory))
    /\ cat' = [cat EXCEPT !.categories = Append(@, Trim(newCategory)),
                          !.adds = @ + 1]
    /\ UNCHANGED <<apiKey, genAI, plan, rec, ext, mock, dur, constructed, names,
                   wiz, tab, rat, tg, sch>>

\* deleteCategory of the budget tab, part_007 lines 1267-1275; the button
\* is shown for the categories of the list, lines 1502-1515
deleteCategory(category) ==
    /\ cat.shown = "budget"
    /\ Has(cat.categories, category)
    /\ category # OtherCategory
    /\ cat' = [cat EXCEPT
                 !.categories = WithoutCategory(@, category),
                 !.entries = MovedToOther(@, category)]
    /\ UNCHANGED <<apiKey, genAI, plan, rec, ext, mock, dur, constructed, names,
                   wiz, tab, rat, tg, sch>>

\* the form of a new packing item is saved: saveNewItem of the packing
\* tab, BudgetOverview.tsx lines 392-395
PackingSaveNewItem(category) ==
    /\ cat.shown = "packing"
    /\ cat.saves < MaxEntrySaves
    /\ FormOffers(category)
    /\ cat' = [cat EXCEPT
                 !.entries = Append(@, EntryOf(ToString(cat.nextId), category)),
                 !.nextId = @ + 1, !.saves = @ + 1]
    /\ UNCHANGED <<apiKey, genAI, plan, rec, ext, mock, dur, constructed, names,
                   wiz, tab, rat, tg, sch>>

\* the form of the packing item at position i is saved: saveEditedItem of
\* the packing tab, BudgetOverview.tsx lines 400-404; the user edits the
\* first, the nineteenth or the last item
PackingSaveEditedItem(i, category) ==
    /\ cat.shown = "packing"
    /\ cat.saves < MaxEntrySaves
    /\ i \in 1..Len(cat.entries)
    /\ FormOffers(category)
    /\ cat' = [cat EXCEPT
                 !.entries = WithEntry(@, EntryOf(cat.entries[i].id, category)),
                 !.saves = @ + 1]
    /\ UNCHANGED <<apiKey, genAI, plan, rec, ext, mock, dur, constructed, names,
                   wiz, tab, rat, tg, sch>>

\* addCategory of the packing tab, BudgetOverview.tsx lines 411-417; the
\* button is disabled unless the condition holds, line 583
PackingAddCategory(newCategory) ==
    /\ cat.shown = "packing"
    /\ cat.adds < MaxCategoryAdds
    /\ Trim(newCategory) # <<>>
    /\ ~Has(cat.categories, Trim(newCategory))
    /\ cat' = [cat EXCEPT !.categories = Append(@, Trim(newCategory)),
                          !.adds = @ + 1]
    /\ UNCHANGED <<apiKey, genAI, plan, rec, ext, mock, dur, constructed, names,
                   wiz, tab, rat, tg, sch>>

\* deleteCategory of the packing tab, BudgetOverview.tsx lines 422-430; the
\* button is shown for the categories of the list, lines 593-606
PackingDeleteCategory(category) ==
    /\ cat.shown = "packing"
    /\ Has(cat.categories, category)
    /\ category # OtherCategory
    /\ cat' = [cat EXCEPT
                 !.categories = WithoutCategory(@, category),
                 !.entries = MovedToOther(@, category)]
    /\ UNCHANGED <<apiKey, genAI, plan, rec, ext, mock, dur, constructed, names,
                   wiz, tab, rat, tg, sch>>

\* the budget tab after its first effect (part_007 lines 1138-1171), or the
\* packing tab after its first effect for a domestic or an international
\* travel (BudgetOverview.tsx lines 296-340)
CategoriesInit ==
    /\ apiKey = "key"
    /\ genAI = "null"
    /\ plan = IdlePlan
    /\ rec = IdleRec
    /\ ext = IdleExt
    /\ mock = IdleMock
    /\ dur = IdleDur
    /\ constructed = 0
    /\ names = IdleNames
    /\ wiz = IdleWiz
    /\ tab = IdleTab
    /\ rat = IdleRat
    /\ tg = IdleTags
    /\ sch = IdleSchedule
    /\ cat \in { [IdleCategories EXCEPT !.shown = "budget",
                                        !.categories = BudgetCategories],
                 [IdleCategories EXCEPT !.shown = "packing",
                                        !.categories = PackingCategories,
                                        !.entries = domesticTemplate],
                 [IdleCategories EXCEPT !.shown = "packing",
                                        !.categories = PackingCategories,
                                        !.entries = internationalTemplate] }

CategoriesNext ==
    \/ \E category \in CategoryNames : saveNewExpense(category)
    \/ \E i \in 1..MaxEntrySaves, category \in CategoryNames :
         saveEditedExpense(i, category)
    \/ \E newCategory \in CategoryInputs : addCategory(newCategory)
    \/ \E category \in CategoryNames : deleteCategory(category)
    \/ \E category \in CategoryNames : PackingSaveNewItem(category)
    \/ \E i \in {1, 19, Len(cat.entries)}, category \in CategoryNames :
         PackingSaveEditedItem(i, category)
    \/ \E newCategory \in CategoryInputs : PackingAddCategory(newCategory)
    \/ \E category \in CategoryNames : PackingDeleteCategory(category)

SpecCategories == CategoriesInit /\ [][CategoriesNext]_vars

-----------------------------------------------------------------------------
(* Properties of generateTravelPlan, checked under SpecPlan.               *)

\* C1: every invocation of generateTravelPlan ends in exactly one of Success
\* (success:true, the parsed plan) and Fallback (success:false, the mock plan,
\* the message of the error that was thrown), after at most one model call: a
\* failure of the model call, of the extraction or of JSON.parse settles the
\* call as Fallback, and the model is never called a second time.
C1_TerminalOutcomes ==
    /\ plan.calls <= 1
    /\ plan.pc = "awaitModel" => plan.calls = 1 /\ plan.result = NoResult
    /\ plan.pc = "done" =>
         /\ plan.result.outcome \in {"Success", "Fallback"}
         /\ plan.result.outcome = "Success" <=> plan.thrown = NoError
         /\ plan.result.outcome = "Success" =>
              /\ plan.result.success
              /\ plan.got /\ plan.calls = 1
              /\ JSONParse(ExtractPlanJson(plan.text)).ok
              /\ plan.result.data = JSONParse(ExtractPlanJson(plan.text)).val
              /\ plan.result.error = Undefined
         /\ plan.result.outcome = "Fallback" =>
              /\ ~plan.result.success
              /\ plan.result.data = generateMockPlan(plan.travelData)
              /\ plan.thrown.isError => plan.result.error = plan.thrown.message
         /\ (plan.got /\ ~JSONParse(ExtractPlanJson(plan.text)).ok) =>
              plan.result.outcome = "Fallback"
         /\ ~plan.got => plan.result.outcome = "Fallback"

\* C1 witness: a call that called the model once, got a text that does not
\* parse, and ended as Fallback
C1_Witness ==
    /\ plan.pc = "done"
    /\ plan.calls = 1
    /\ plan.got
    /\ plan.result.outcome = "Fallback"
    /\ plan.result.error = SyntaxError.message

\* the model call of this invocation was made and threw
ModelCallThrew == plan.pc = "done" /\ plan.calls = 1 /\ ~plan.got

ConfigurationMissing ==
    /\ plan.pc = "done"
    /\ plan.thrown = Error("GEMINI_API_KEY is not defined")

\* C3 as stated: a missing API key aborts the call with that error and no
\* fallback plan is returned.
C3_Original ==
    ConfigurationMissing =>
      /\ plan.result.outcome = "Aborted"
      /\ plan.result.data # generateMockPlan(plan.travelData)

\* C3 amended: a missing API key is caught like every other error: the call
\* returns the Fallback payload (success:false, the mock plan, the error text
\* "GEMINI_API_KEY is not defined") without calling the model, the client slot
\* stays empty, and no error of any kind aborts the call.
C3_ConfigurationFallback ==
    /\ plan.pc = "done" => plan.result.outcome # "Aborted"
    /\ ConfigurationMissing =>
         /\ plan.result.outcome = "Fallback"
         /\ plan.result.success = FALSE
         /\ plan.result.data = generateMockPlan(plan.travelData)
         /\ plan.result.error = "GEMINI_API_KEY is not defined"
         /\ plan.calls = 0
         /\ genAI = "null"
    /\ (plan.pc = "done" /\ plan.thrown # NoError) =>
         plan.result.outcome = "Fallback"

\* C3 witness: a call made without an API key has returned the mock plan
C3_Witness ==
    /\ apiKey = ""
    /\ ConfigurationMissing
    /\ plan.result.outcome = "Fallback"
    /\ plan.travelData.budget = 5

\* the model answered with a text that has neither a fenced block labelled
\* json nor a brace-delimited object
NeitherFenceNorObject ==
    /\ plan.pc = "done"
    /\ plan.got
    /\ ~MatchFencedJson(plan.text).found
    /\ ~MatchObject(plan.text).found

\* C11 as stated: when the text has neither a fenced JSON block nor a
\* brace-delimited object, the whole text is the candidate, parsing fails and
\* the call ends in Fallback with success:false.
C11_Original ==
    NeitherFenceNorObject =>
      /\ ExtractPlanJson(plan.text) = plan.text
      /\ plan.result.outcome = "Fallback"
      /\ plan.result.success = FALSE

\* C11 amended: when the text has neither a fenced block labelled json nor a
\* brace-delimited object, the whole text is the candidate; the call ends in
\* Fallback exactly when that text is no valid JSON, and a text that is a JSON
\* value written without braces (a number, null, an array of these) parses, so
\* that the call ends in Success with that value as data.
C11_RawTextCandidate ==
    NeitherFenceNorObject =>
      LET parsed == JSONParse(plan.text)
      IN  /\ ExtractPlanJson(plan.text) = plan.text
          /\ ~parsed.ok =>
               /\ plan.result.outcome = "Fallback"
               /\ plan.result.success = FALSE
               /\ plan.result.data = generateMockPlan(plan.travelData)
          /\ parsed.ok =>
               /\ plan.result.outcome = "Success"
               /\ plan.result.success = TRUE
               /\ plan.result.data = parsed.val
               /\ parsed.val.kind \in {"number", "null", "array"}

\* C11 witness: the model answered [1], which has no fence and no brace, and
\* the call returned it as the plan
C11_Witness ==
    /\ NeitherFenceNorObject
    /\ plan.text = <<"[", "1", "]">>
    /\ plan.result.outcome = "Success"
    /\ plan.result.data.kind = "array"

\* C12: plan generation validates nothing after parsing: whenever JSON.parse of
\* the candidate succeeds the call returns success:true with the parsed value
\* as data, whatever its shape (an object without the keys of a plan, a number,
\* null, an array).
C12_ParsedValueTrusted ==
    (plan.pc = "done" /\ plan.got) =>
      LET parsed == JSONParse(ExtractPlanJson(plan.text))
      IN  parsed.ok =>
            /\ plan.result.success = TRUE
            /\ plan.result.data = parsed.val
            /\ plan.result.error = Undefined
            /\ plan.thrown = NoError

\* C12 witness: the model answered with the empty object in prose, which has
\* none of the keys of a plan, and the call returned it with success:true
C12_Witness ==
    /\ plan.pc = "done"
    /\ plan.text = <<"x", "{", "}">>
    /\ plan.result.success = TRUE
    /\ plan.result.data = [kind |-> "object", text |-> <<"{", "}">>, items |-> <<>>]

-----------------------------------------------------------------------------
(* Properties of generateRecommendations, checked under SpecRec.           *)

\* the call has returned a list
RecSucceeded == rec.pc = "done" /\ rec.result.success

\* the white-space-stripped name or description of an element contains the
\* white-space-stripped destination, or the white-space-stripped region when
\* a region was supplied
Mentions(fields, prefs) ==
    LET name   == StripSpaces(OrEmpty(fields.name))
        desc   == StripSpaces(OrEmpty(fields.description))
        dest   == StripSpaces(prefs.destination)
        region == StripSpaces(OrEmpty(prefs.region))
    IN  \/ Includes(name, dest)
        \/ Includes(desc, dest)
        \/ /\ prefs.region.type = "string"
           /\ Includes(name, region) \/ Includes(desc, region)

TokyoTower == Str(<<"T", "o", "k", "y", "o", " ", "T", "o", "w", "e", "r">>)

\* C4: every element of the array generateRecommendations returns mentions
\* the destination in its name or description, or the region when one was
\* supplied (all compared without white space); an element that mentions
\* neither, such as one named Tokyo Tower for the destination Kyoto with no
\* region, is not in the result.
C4_FilteredByDestination ==
    RecSucceeded =>
      LET recs == rec.result.recommendations
      IN  /\ \A i \in 1..Len(recs) : Mentions(recs[i], rec.prefs)
          /\ \A i \in 1..Len(rec.items) :
               ~Mentions(ElementFields(rec.items[i]), rec.prefs) =>
                 \A j \in 1..Len(recs) :
                   <<recs[j].name, recs[j].description>> #
                     <<ElementFields(rec.items[i]).name,
                       ElementFields(rec.items[i]).description>>
          /\ (rec.prefs = [destination |-> <<"K", "y", "o", "t", "o">>, region |-> Absent]) =>
               \A j \in 1..Len(recs) : recs[j].name # TokyoTower

\* C4 witness: for Kyoto with no region the model listed Tokyo Tower and
\* Kyoto Tower, and only Kyoto Tower is returned
C4_Witness ==
    /\ RecSucceeded
    /\ rec.prefs = [destination |-> <<"K", "y", "o", "t", "o">>, region |-> Absent]
    /\ rec.text = <<"[", "R3", ",", "R1", "]">>
    /\ Len(rec.result.recommendations) = 1
    /\ rec.result.recommendations[1].name = RecTable["R1"].name

\* the elements of the parsed array that pass the filter, in order
Survivors ==
    SelectSeq(rec.items,
      LAMBDA v : RecMatches(ElementFields(v),
                            StripSpaces(rec.prefs.destination),
                            StripSpaces(OrEmpty(rec.prefs.region))))

\* url matches ^https://.*\.(jpg|jpeg|png|webp|gif|bmp|svg)(\?.*)?$, with the
\* flag i when ignoreCase and with . matching line terminators when dotAll
MatchesImagePattern(url, ignoreCase, dotAll) ==
    /\ StartsAt(url, 1, HttpsPrefix)
    /\ \E i \in (Len(HttpsPrefix) + 1)..Len(url) :
         /\ ExtensionAt(url, i, ignoreCase)
         /\ dotAll \/ \A q \in (Len(HttpsPrefix) + 1)..(i - 1) :
                        ~IsLineTerminator(url[q])

\* C5 as stated: for every surviving recommendation whose image does not
\* match ^https://.*\.(jpg|jpeg|png|webp|gif|bmp|svg)(\?.*)?$ or whose length
\* is outside [15,300], the returned image is the placeholder.
C5_Original ==
    RecSucceeded =>
      \A i \in 1..Len(rec.result.recommendations) :
        LET image == ElementFields(Survivors[i]).image
        IN  (\/ image.type # "string"
             \/ ~MatchesImagePattern(image.chars, FALSE, FALSE)
             \/ Len(image.chars) < MinImageLength
             \/ Len(image.chars) > MaxImageLength)
              => rec.result.recommendations[i].image = PlaceholderImage

\* C5 amended: for every surviving recommendation whose image is not a string
\* that starts with https:// and ends, in any letter case, with one of the
\* extensions .jpg .jpeg .png .webp .gif .bmp .svg, optionally followed by a
\* ?query without line terminators, or whose length is outside [15,300], the
\* returned image is the placeholder.
C5_InvalidImageReplaced ==
    RecSucceeded =>
      \A i \in 1..Len(rec.result.recommendations) :
        LET image == ElementFields(Survivors[i]).image
        IN  (\/ image.type # "string"
             \/ ~MatchesImagePattern(image.chars, TRUE, TRUE)
             \/ Len(image.chars) < MinImageLength
             \/ Len(image.chars) > MaxImageLength)
              => rec.result.recommendations[i].image = PlaceholderImage

\* C5 witness: an element whose image ends in .txt and one whose image ends
\* in .JPG survive; the first gets the placeholder, the second keeps its image
C5_Witness ==
    /\ RecSucceeded
    /\ rec.text = <<"[", "R13", ",", "R12", "]">>
    /\ Len(rec.result.recommendations) = 2
    /\ rec.result.recommendations[1].image = PlaceholderImage
    /\ rec.result.recommendations[2].image = RecTable["R12"].image

\* the inner try block threw: JSON.parse failed, or the value is no array
ParseOrSchemaError == rec.pc = "done" /\ rec.inner # NoError

\* C13: every parse or schema error of recommendation generation is returned as
\* success:false with an empty list and an error message; no recommendation is
\* ever made up: a failed call returns the empty list and a successful call
\* returns only elements of the parsed array.
C13_ErrorsSurfaced ==
    /\ ParseOrSchemaError =>
         /\ rec.result.success = FALSE
         /\ rec.result.recommendations = <<>>
         /\ rec.result.error = InvalidListError.message
         /\ rec.result.error \notin {"", Undefined}
    /\ (rec.pc = "done" /\ ~rec.result.success) =>
         /\ rec.result.recommendations = <<>>
         /\ rec.result.error \notin {"", Undefined}
    /\ RecSucceeded =>
         /\ rec.inner = NoError
         /\ \A i \in 1..Len(rec.result.recommendations) :
              \E j \in 1..Len(rec.items) :
                rec.result.recommendations[i] = WithImage(ElementFields(rec.items[j]))

\* C13 witness: the model answered with an unfinished array, JSON.parse threw,
\* and the call returned the empty list with the error message
C13_Witness ==
    /\ ParseOrSchemaError
    /\ rec.text = <<"[", "R1">>
    /\ rec.inner = SyntaxError
    /\ rec.result = [success |-> FALSE, recommendations |-> <<>>,
                     error |-> InvalidListError.message]

\* C14: when the extracted text parses but its value is no array, the call
\* fails with the error that reports the non-array response, a failure apart
\* from the one raised for text that does not parse.
C14_SchemaErrorDistinct ==
    (rec.pc = "done" /\ rec.inner = NotArrayError) =>
      /\ rec.result.success = FALSE
      /\ rec.result.error = NotArrayError.message
      /\ rec.result.error # RecCatch(InvalidListError).error

-----------------------------------------------------------------------------
(* Properties of generateMockPlan, checked under SpecMock.                 *)

\* C6: for every non-negative budget the four parts of the fallback plan's
\* budget (the rounded 30%, 40%, 20% and 10% shares) sum to at most the budget.
C6_BudgetWithinTotal ==
    mock.called =>
      mock.plan.budget.transportation + mock.plan.budget.accommodation
        + mock.plan.budget.food + mock.plan.budget.activities
          <= mock.travelData.budget

\* C7: generateMockPlan succeeds on every travelData, touches nothing but its
\* result, and returns exactly one schedule day dated startDate with exactly
\* two items in order (09:00 transport arrival, then 14:00 sightseeing built
\* from the interests), exactly one place and exactly two tips.
C7_MockPlanShape ==
    /\ ~mock.called => ENABLED MockCall
    /\ genAI = "null"
    /\ mock.called =>
         LET day == mock.plan.schedule[1]
         IN  /\ Len(mock.plan.schedule) = 1
             /\ day.date = mock.travelData.startDate
             /\ Len(day.items) = 2
             /\ day.items[1].time = "09:00"
             /\ day.items[1].category = "transport"
             /\ day.items[1].location = <<mock.travelData.destination>>
             /\ day.items[2].time = "14:00"
             /\ day.items[2].category = "sightseeing"
             /\ day.items[2].description[1] = mock.travelData.interests
             /\ Len(mock.plan.places) = 1
             /\ Len(mock.plan.recommendations.tips) = 2
             /\ mock.plan.budget = MockBudget(mock.travelData.budget)

\* C7 witness: the mock plan of a trip to Nara with two interests
C7_Witness ==
    /\ mock.called
    /\ mock.travelData.destination = "Nara"
    /\ mock.travelData.interests = <<"history", "gourmet">>
    /\ mock.plan.schedule[1].date = [y |-> 2024, m |-> 2, d |-> 28]
    /\ Len(mock.plan.schedule[1].items) = 2

-----------------------------------------------------------------------------
(* Properties of the trip length, checked under SpecDates.                 *)

\* C8: for every date range with start <= end the trip length counts both
\* end points: days is the number of whole days between start and end plus 1,
\* nights is days - 1; 2024-03-15 to 2024-03-17 gives 3 days and 2 nights.
C8_InclusiveDays ==
    (dur.applied # "none" /\ dur.startIndex <= dur.endIndex) =>
      /\ dur.days = (dur.endIndex - dur.startIndex) + 1
      /\ dur.nights = dur.days - 1
      /\ (/\ dur.startDate = [y |-> 2024, m |-> 3, d |-> 15]
          /\ dur.endDate = [y |-> 2024, m |-> 3, d |-> 17])
           => dur.days = 3 /\ dur.nights = 2

\* C8 witness: the prompt builder has computed 2024-03-15 to 2024-03-17
C8_Witness ==
    /\ dur.applied = "prompt"
    /\ dur.startDate = [y |-> 2024, m |-> 3, d |-> 15]
    /\ dur.endDate = [y |-> 2024, m |-> 3, d |-> 17]
    /\ dur.days = 3
    /\ dur.nights = 2

\* C9: whenever the end date precedes the start date, the prompt builder's
\* day count is not positive.
C9_NonPositiveDays ==
    (dur.applied = "prompt" /\ dur.endIndex < dur.startIndex) => dur.days <= 0

\* C9 witness: the end date is the day before the start date, the count is 0
C9_Witness ==
    /\ dur.applied = "prompt"
    /\ dur.endIndex + 1 = dur.startIndex
    /\ dur.days = 0
    /\ dur.nights = -1

-----------------------------------------------------------------------------
(* Properties of the model client, checked under SpecService.              *)

\* C15: in every interleaving of concurrent generateTravelPlan,
\* generateRecommendations and extractNamesFromImage invocations the client is
\* constructed at most once, the slot holds a client exactly when one was
\* constructed, and once the slot is not null no step assigns it again or
\* constructs another client.
C15_ClientBuiltOnce ==
    /\ [](constructed <= 1 /\ (genAI = "null" <=> constructed = 0))
    /\ [][genAI # "null" => (genAI' = genAI /\ constructed' = constructed)]_vars

\* C15 witness: four invocations wait for the model at the same time, one of
\* each kind and a second extractNamesFromImage, and one client was built
C15_Witness ==
    /\ constructed = 1
    /\ genAI = "client"
    /\ plan.pc = "awaitModel"
    /\ rec.pc = "awaitModel"
    /\ \A i \in 1..MaxNames : names[i].pc = "awaitModel"

-----------------------------------------------------------------------------
(* Properties of the response extractor, checked under SpecExtract.        *)

\* the pairs <<i, k>> of t: open is at i, close is at k, after all of open
Blocks(t, open, close) ==
    { b \in { i \in 1..Len(t) : StartsAt(t, i, open) }
              \X { k \in 1..Len(t) : StartsAt(t, k, close) } :
        b[2] >= b[1] + Len(open) }

\* the block that opens first and, of those, closes first
FirstBlock(bs) ==
    CHOOSE b \in bs :
      \A c \in bs : b[1] < c[1] \/ (b[1] = c[1] /\ b[2] <= c[2])

\* s without the label json, if it starts with it
Unlabelled(s) ==
    IF StartsAt(s, 1, <<"j", "s", "o", "n">>) THEN SubSeq(s, 5, Len(s)) ELSE s

\* the candidate the extractor must give when t has no fenced block it
\* recognises: the greedy match between the first open and the last close
\* character, or the whole text
GreedyOrText(t, open, close) ==
    LET pairs == { q \in (1..Len(t)) \X (1..Len(t)) :
                     q[1] < q[2] /\ t[q[1]] = open /\ t[q[2]] = close }
    IN  IF pairs = {} THEN t
        ELSE SubSeq(t, Min({ q[1] : q \in pairs }), Max({ q[2] : q \in pairs }))

ExtOpen == IF ext.applied = "plan" THEN "{" ELSE "["
ExtClose == IF ext.applied = "plan" THEN "}" ELSE "]"

\* C10 as stated: whenever the text contains a triple-backtick fenced block,
\* labelled json or not, the candidate is that block's inner content; only
\* without such a block is it the greedy object (plans) or array
\* (recommendations), and only without either the whole text.
C10_Original ==
    ext.applied # "none" =>
      LET fenced == Blocks(ext.text, Fence, Fence)
      IN  IF fenced # {}
          THEN LET b == FirstBlock(fenced)
               IN  ext.candidate =
                     Trim(Unlabelled(SubSeq(ext.text, b[1] + Len(Fence), b[2] - 1)))
          ELSE ext.candidate = GreedyOrText(ext.text, ExtOpen, ExtClose)

\* C10 amended: the extractor prefers a fenced block labelled json: whenever
\* the text contains ```json and a closing ``` after it, the candidate is that
\* block's inner content without the white space around it, or the whole block
\* with its fences when that content is empty; a fence without the label is
\* not recognised. Only without such a block is the candidate the greedy
\* object (plans) or array (recommendations), and only without either the
\* whole text.
C10_LabelledFencePreferred ==
    ext.applied # "none" =>
      LET labelled == Blocks(ext.text, FenceJson, Fence)
      IN  IF labelled # {}
          THEN LET b == FirstBlock(labelled)
                   inner == Trim(SubSeq(ext.text, b[1] + Len(FenceJson), b[2] - 1))
               IN  ext.candidate =
                     IF inner # <<>> THEN inner
                     ELSE SubSeq(ext.text, b[1], b[2] + Len(Fence) - 1)
          ELSE ext.candidate = GreedyOrText(ext.text, ExtOpen, ExtClose)

\* C10 witness: a plan text with a labelled block and a brace pair that is not
\* inside it; the candidate is the block's content, not the brace match
C10_Witness ==
    /\ ext.applied = "plan"
    /\ Blocks(ext.text, FenceJson, Fence) # {}
    /\ MatchObject(ext.text).found
    /\ ext.candidate # MatchObject(ext.text).whole
    /\ ext.candidate = <<"}">>

-----------------------------------------------------------------------------
(* Properties of the travel-creation wizard, checked under SpecWizard.      *)

\* generatePlan was answered with success:false in this step: it set the
\* timer of lines 65-67
FailureAnswered ==
    /\ Len(wiz'.timers) = Len(wiz.timers) + 1
    /\ wiz'.timers[Len(wiz'.timers)].kind = "onError"
    /\ wiz'.timers[Len(wiz'.timers)].arg # "network error"

\* the error screen of AIGenerationStep is on the screen with this message
ErrorShown(w, message) ==
    /\ w.open
    /\ w.step = "ai-generation"
    /\ w.inst.mounted
    /\ w.inst.error = message

\* the timer at position i fired in this step
Fired(i) ==
    /\ i \in 1..Len(wiz.timers)
    /\ wiz'.timers = RemoveAt(wiz.timers, i)

\* C17: a plan-generation response with success:false is recoverable: when
\* it arrives its error is shown on the error screen, the callback it
\* schedules never moves the wizard to the review step, and while the error
\* screen is shown a new attempt can be started with its retry button.
C17_FailureRecoverable ==
    /\ [][FailureAnswered =>
            ErrorShown(wiz', wiz'.timers[Len(wiz'.timers)].arg)]_vars
    /\ [][\A i \in 1..MaxAttempts :
            (Fired(i) /\ wiz.timers[i].kind = "onError") =>
               wiz'.step = "form"]_vars
    /\ [][(FailureAnswered /\ wiz'.inst.mounted /\ wiz'.attempts < MaxAttempts)
            => wiz'.inst.error # Null]_vars

\* C19: the step of the wizard only moves from the form to the generation,
\* and from the generation to the review or back to the form; travelApi.create
\* is called only in the review step with a generated plan.
C19_StepOrder ==
    /\ [][wiz'.step # wiz.step =>
            <<wiz.step, wiz'.step>> \in { <<"form", "ai-generation">>,
                                          <<"ai-generation", "review">>,
                                          <<"ai-generation", "form">> }]_vars
    /\ [][wiz'.created > wiz.created =>
            (wiz.step = "review" /\ wiz.generatedPlan # Null)]_vars

-----------------------------------------------------------------------------
(* Properties of the AI recommendations tab, checked under SpecTab.         *)

\* the request of the tab ended in this step with a response that has
\* success:false, or by throwing
TabRequestFailed ==
    /\ tab.pending
    /\ ~tab'.pending
    /\ (tab'.rejected \/ ~tab'.res.success)

\* C18: when the recommendation request is answered with success:false or
\* throws, the list of the tab becomes empty, a message is shown (the
\* response's message, else its error, else the default text), and
\* isGenerating is false again, which enables the generate button.
C18_FailureShowsEmptyState ==
    [][TabRequestFailed =>
         /\ tab'.recommendations = <<>>
         /\ tab'.alert = IF tab'.rejected THEN TabDefaultMessage
                         ELSE TabMessage(tab'.res)
         /\ ~Falsy(tab'.alert)
         /\ ~tab'.isGenerating]_vars

\* C18 witness: a failed request after one that had filled the list (a
\* recommendation was added to the places): the list is empty, the message
\* of the response is shown and the button is enabled
C18_Witness ==
    /\ tab.places # <<>>
    /\ ~tab.pending
    /\ ~tab.rejected
    /\ ~tab.res.success
    /\ tab.recommendations = <<>>
    /\ tab.alert = "error"
    /\ ~tab.isGenerating

-----------------------------------------------------------------------------
(* Properties of the room-assignment tab, checked under SpecRooms.          *)

\* the delayed copy of an autoAssignAllDays that was clicked on day 1 runs in
\* this step, and since the click nothing but the automatic assignment has
\* changed the days
CopyCompletes ==
    /\ rat.timers # <<>>
    /\ rat'.timers = Tail(rat.timers)
    /\ Head(rat.timers).currentDayIndex = 0
    /\ rat.currentDayIndex = 0
    /\ rat.dayAssignments =
         autoAssignRooms([rat EXCEPT
                            !.dayAssignments = Head(rat.timers).dayAssignments])

\* C20: when autoAssignAllDays has completed on a stay of several nights,
\* its delayed copy included, day 1 holds the rooms the automatic assignment
\* produced and every later day holds the assignment of day 1.
C20_AllDaysAssigned ==
    [][CopyCompletes =>
         /\ rat'.dayAssignments[1] = rat.dayAssignments[1]
         /\ AssignedMemberIds(rat'.dayAssignments[1]) # {}
         /\ \A d \in 1..Len(rat'.dayAssignments) :
              rat'.dayAssignments[d] = rat'.dayAssignments[1]]_vars

-----------------------------------------------------------------------------
(* Properties of the form and of the callbacks of the wizard, checked under *)
(* SpecWizard.                                                              *)

\* the form is valid as the wizard documents it, on calendar days
FormValid(formData, today) ==
    /\ formData.title # <<>>
    /\ formData.destination # <<>>
    /\ formData.startDate # NoDate
    /\ formData.endDate # NoDate
    /\ formData.memberCount > 0
    /\ formData.budget > 0
    /\ ~Before(formData.startDate, today)
    /\ ~Before(formData.endDate, formData.startDate)
    /\ DaysFromCivil(formData.endDate) - DaysFromCivil(formData.startDate)
         <= 365

\* C21: the wizard is in the generation step only with a valid form (title
\* and destination not empty, both dates set, memberCount and budget
\* positive, start date not before today, end date not before the start date,
\* at most 365 days), and every plan-generation request awaited has a start
\* date that is not after its end date.
C21_GenerationOnlyWithValidForm ==
    /\ wiz.step = "ai-generation" => FormValid(wiz.formData, wiz.today)
    /\ \A r \in wiz.requests :
         /\ r.travelData.startDate # NoDate
         /\ r.travelData.endDate # NoDate
         /\ ~Before(r.travelData.endDate, r.travelData.startDate)

\* C21 witness: a request for a trip of exactly 365 days is awaited in the
\* generation step
C21_Witness ==
    /\ wiz.step = "ai-generation"
    /\ \E r \in wiz.requests :
         /\ r.travelData.startDate = [y |-> 2024, m |-> 3, d |-> 15]
         /\ r.travelData.endDate = [y |-> 2025, m |-> 3, d |-> 15]

\* C27: a delayed callback changes the step of the wizard only when it was
\* scheduled by the most recent generation attempt and the wizard is still in
\* the generation step: the callback of an earlier attempt changes nothing
\* after a retry or after the wizard has left the generation step.
C27_OnlyLatestAttemptMovesStep ==
    [][\A i \in 1..MaxAttempts :
         (Fired(i) /\ wiz'.step # wiz.step) =>
            /\ wiz.timers[i].attempt = wiz.attempts
            /\ wiz.step = "ai-generation"]_vars

-----------------------------------------------------------------------------
(* Properties of the members' tags, checked under SpecTags.                 *)

\* C23: a tag in use is not deleted: whatever the user does in the edit mode
\* (startEditMode, updateBulkEditMember, addTag, removeTag, saveBulkEdit),
\* every tag in the preferences of a saved member is in availableTags.
C23_TagsInUseAvailable ==
    \A i \in 1..Len(tg.members) :
       \A tag \in tg.members[i] : Has(tg.availableTags, tag)

-----------------------------------------------------------------------------
(* Properties of the rooms of each day, checked under SpecRooms.            *)

\* how many times the member id is in the assignment
TimesAssigned(assignments, memberId) ==
    Cardinality({ <<r, i>> \in RoomIds \X (1..Len(RatMembers)) :
                    /\ i <= Len(assignments[r])
                    /\ assignments[r][i] = memberId })

\* C22: on each day a member id is in at most one room and at most once in
\* it, in every state of the room-assignment tab.
C22_MemberOncePerDay ==
    \A d \in 1..Len(rat.dayAssignments) :
       \A i \in 1..Len(rat.members) :
          TimesAssigned(rat.dayAssignments[d], rat.members[i]) <= 1

\* C22 witness: on the first of the initial days member 1 was moved from room
\* 101, which it shared with member 3, to the empty room 201
C22_Witness ==
    /\ ~rat.travelInfo.given
    /\ rat.edits = 1
    /\ rat.dayAssignments[1]["101"] = <<3>>
    /\ rat.dayAssignments[1]["201"] = <<1>>

\* C28: on no day a room holds more members than its capacity.
C28_CapacityRespected ==
    \A d \in 1..Len(rat.dayAssignments) :
       \A i \in 1..Len(rat.rooms) :
          Len(rat.dayAssignments[d][rat.rooms[i].id]) <= rat.rooms[i].capacity

-----------------------------------------------------------------------------
(* Properties of the schedule tab, checked under SpecSchedule.              *)

\* the number a digit stands for
DigitValue(c) == CollationRank(c) - 1

\* the minutes since midnight a time "H:MM" or "HH:MM" stands for
MinutesOf(time) ==
    IF time[2] = ":"
    THEN DigitValue(time[1]) * 60 + DigitValue(time[3]) * 10
           + DigitValue(time[4])
    ELSE (DigitValue(time[1]) * 10 + DigitValue(time[2])) * 60
           + DigitValue(time[4]) * 10 + DigitValue(time[5])

\* the items are in ascending order of their times, those without a time
\* behind all others
InTimeOrder(items) ==
    \A i, j \in 1..Len(items) :
       i < j =>
          /\ items[i].time = <<>> => items[j].time = <<>>
          /\ (items[i].time # <<>> /\ items[j].time # <<>>) =>
                MinutesOf(items[i].time) <= MinutesOf(items[j].time)

\* saveNewItem or saveEditedItem ran in this step
ItemSaved == sch'.saves = sch.saves + 1

\* C24: after saveNewItem or saveEditedItem on a day, the items of that day
\* are in ascending order of time with the items without a time behind all
\* timed ones, and the items of every other day are as before.
C24_SavedDaySorted ==
    [][ItemSaved =>
         \A d \in 1..Len(sch'.schedule) :
            IF d = sch.selectedDayIndex + 1
            THEN InTimeOrder(sch'.schedule[d])
            ELSE sch'.schedule[d] = sch.schedule[d]]_vars

-----------------------------------------------------------------------------
(* Properties of the category lists, checked under SpecCategories.          *)

-----------------------------------------------------------------------------
(* Properties of addToPlaces, checked under SpecTab.                        *)

\* addToPlaces ran in this step for the card at position i: a place with
\* the name of the card was handed to onAddToPlaces
AddedToPlaces(i) ==
    /\ i \in 1..Len(tab.recommendations)
    /\ Len(tab'.places) = Len(tab.places) + 1
    /\ tab'.places[Len(tab'.places)] = tab.recommendations[i].name

\* C26: after addToPlaces(recommendation) the recommendation is bookmarked
\* and one place built from it has been handed to onAddToPlaces, whatever
\* addToPlaces and toggleBookmark calls came before.
C26_AddedIsBookmarked ==
    [][\A i \in 1..MaxRecs :
         AddedToPlaces(i) =>
            /\ tab'.recommendations[i].isBookmarked
            /\ tab'.places = Append(tab.places, tab.recommendations[i].name)]_vars

====
